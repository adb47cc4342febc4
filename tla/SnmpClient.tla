------------------------------ MODULE SnmpClient ------------------------------
(***************************************************************************)
(* snmp_client of tsc_client_service: process_snmp_request, called by the  *)
(* threads that share one client. The request under way (pdu), its object  *)
(* identifier (OID) and the length of that (OID_len, which read_objid also *)
(* takes as the room there is) are members of the client; no mutex guards  *)
(* them. The controller is external: it holds a value for every OID.       *)
(***************************************************************************)
EXTENDS Integers, FiniteSets, TLC

CONSTANTS
  Getters, Setters, \* the threads that call process_snmp_request
  Status,       \* OIDs that are read, of 15 numbers
  Controls,     \* OIDs that are set
  Short,        \* those of them with 14 numbers, the others have 15
  Values,       \* of a control
  MaxRequests,  \* bound: calls of process_snmp_request
  MaxFaults,    \* bound: requests refused, and requests or answers lost on the way
  None

Threads == Getters \cup Setters

Oids == Status \cup Controls

\* What a pdu holds: variables, each with a value when it is to be set.
Pdu == [type : {"GET", "SET"}, vars : SUBSET [oid : Oids \cup {None}, val : Nat \cup {None}]]

SnmpClientAssumption ==
  /\ MaxRequests \in Nat /\ MaxFaults \in Nat /\ Values \subseteq Nat
  /\ Short \subseteq Controls /\ Status \cap Controls = {}
  /\ None \notin Threads \cup Oids /\ None \notin Nat \cup Pdu

MAX_OID_LEN == 128

LengthOf(o) == IF o \in Short THEN 14 ELSE 15

Request(t) ==
  (IF t \in Getters THEN [oid : Status, type : {"GET"}] ELSE {})
  \cup (IF t \in Setters THEN [oid : Controls, type : {"SET"}, val : Values] ELSE {})

VARIABLES
  up,         \* the process runs
  pc,         \* of each thread: "idle", "oid", "var", "send", "true", "false"
  request,    \* of each thread: the arguments of its call
  answer,     \* of each thread: val_int, as a value and the OID that it is of
  pdus,       \* of each thread: the pdu it created last, unless freed
  pdu,        \* the member pdu: the thread whose pdu it points to
  OID, OID_len,
  registers,  \* of the controller
  requests, faults

vars == <<up, pc, request, answer, pdus, pdu, OID, OID_len, registers, requests, faults>>

Init ==
  /\ up = TRUE
  /\ pc = [t \in Threads |-> "idle"]
  /\ request = [t \in Threads |-> None] /\ answer = [t \in Threads |-> None]
  /\ pdus = [t \in Threads |-> None] /\ pdu = None
  /\ OID = None /\ OID_len = MAX_OID_LEN
  /\ registers = [o \in Oids |-> IF o \in Status THEN 8 ELSE 0]
  /\ requests = 0 /\ faults = 0

\* snmp_pdu_create; the pdu of an earlier call that was refused is forgotten.
CreatePdu(t) ==
  /\ up /\ pc[t] \in {"idle", "true", "false"} /\ requests < MaxRequests
  /\ \E r \in Request(t) :
       /\ request' = [request EXCEPT ![t] = r]
       /\ pdus' = [pdus EXCEPT ![t] = [type |-> r.type, vars |-> {}]]
  /\ pdu' = t
  /\ answer' = [answer EXCEPT ![t] = None]
  /\ pc' = [pc EXCEPT ![t] = "oid"]
  /\ requests' = requests + 1
  /\ UNCHANGED <<up, OID, OID_len, registers, faults>>

\* What two threads that write OID at once may leave there: numbers of both, of
\* a status that nobody asked for.
Torn(t) ==
  IF \E u \in Threads \ {t} : pc[u] \in {"oid", "var"} THEN Status ELSE {}

\* read_objid fails when the OID is longer than OID_len says there is room for.
ReadObjid(t) ==
  /\ up /\ pc[t] = "oid"
  /\ IF LengthOf(request[t].oid) <= OID_len
     THEN /\ OID' \in {request[t].oid} \cup Torn(t)
          /\ OID_len' = LengthOf(request[t].oid)
          /\ pc' = [pc EXCEPT ![t] = "var"]
     ELSE /\ pc' = [pc EXCEPT ![t] = "false"] /\ UNCHANGED <<OID, OID_len>>
  /\ UNCHANGED <<up, request, answer, pdus, pdu, registers, requests, faults>>

\* snmp_add_null_var and snmp_add_var copy what OID and pdu are now.
AddVar(t) ==
  /\ up /\ pc[t] = "var"
  /\ IF pdus[pdu] = None
     THEN /\ up' = FALSE /\ UNCHANGED <<pc, pdus>>    \* of a pdu that was freed
     ELSE /\ pdus' = [pdus EXCEPT ![pdu].vars = @ \cup
                        {[oid |-> OID, val |-> IF request[t].type = "SET" THEN request[t].val ELSE None]}]
          /\ pc' = [pc EXCEPT ![t] = "send"] /\ UNCHANGED up
  /\ UNCHANGED <<request, answer, pdu, OID, OID_len, registers, requests, faults>>

-----------------------------------------------------------------------------
(***************************************************************************)
(* snmp_synch_response, which frees the pdu, and what becomes of it.       *)
(***************************************************************************)

\* The controller does all that a pdu asks for or nothing.
Accepted(p) == p.type = "SET" => \A v \in p.vars : v.oid \notin Status /\ v.val # None

MutantApplied(p) ==
  [o \in Oids |->
    IF p.type = "SET" /\ \E v \in p.vars : v.oid # o
    THEN (CHOOSE v \in p.vars : v.oid # o).val ELSE registers[o]]

Applied(p) ==
  [o \in Oids |->
    IF p.type = "SET" /\ \E v \in p.vars : v.oid = o
    THEN (CHOOSE v \in p.vars : v.oid = o).val ELSE registers[o]]

\* STAT_SUCCESS and SNMP_ERR_NOERROR: OID_len is set back.
Succeed(t, v) ==
  /\ answer' = [answer EXCEPT ![t] = v]
  /\ pc' = [pc EXCEPT ![t] = "true"]
  /\ OID_len' = MAX_OID_LEN

\* log_error and return: OID_len stays what the request has left.
Fail(t) ==
  /\ pc' = [pc EXCEPT ![t] = "false"]
  /\ UNCHANGED <<answer, OID_len>>

Answered(t) ==
  LET p == pdus[pdu] IN
  /\ Accepted(p)
  /\ registers' = Applied(p)
  /\ IF request[t].type = "SET" \/ p.vars = {}
     THEN Succeed(t, None)   \* val is left as it was
     ELSE \E v \in p.vars : Succeed(t, [oid |-> v.oid, val |-> registers[v.oid]])
  /\ UNCHANGED faults

\* STAT_SUCCESS with an error: the controller refuses.
Refused(t) ==
  /\ IF Accepted(pdus[pdu]) THEN faults < MaxFaults /\ faults' = faults + 1 ELSE UNCHANGED faults
  /\ Fail(t)
  /\ UNCHANGED registers

\* STAT_TIMEOUT: the request, or only the answer, is lost; there is no retry.
TimedOut(t) ==
  /\ faults < MaxFaults
  /\ faults' = faults + 1
  /\ registers' \in {registers} \cup (IF Accepted(pdus[pdu]) THEN {Applied(pdus[pdu])} ELSE {})
  /\ Fail(t)

Send(t) ==
  /\ up /\ pc[t] = "send"
  /\ IF pdus[pdu] = None
     THEN up' = FALSE /\ UNCHANGED <<pc, answer, pdus, OID_len, registers, faults>>
     ELSE /\ Answered(t) \/ Refused(t) \/ TimedOut(t)
          /\ pdus' = [pdus EXCEPT ![pdu] = None]
          /\ UNCHANGED up
  /\ UNCHANGED <<request, pdu, OID, requests>>

Next == \E t \in Threads : CreatePdu(t) \/ ReadObjid(t) \/ AddVar(t) \/ Send(t)

Spec == Init /\ [][Next]_vars

-----------------------------------------------------------------------------
\* The member pdu is of a thread that has created one.
TypeOK ==
  /\ up \in BOOLEAN
  /\ pc \in [Threads -> {"idle", "oid", "var", "send", "true", "false"}]
  /\ \A t \in Threads : pc[t] # "idle" => request[t] \in Request(t) /\ pdu # None
  /\ OID \in Oids \cup {None} /\ OID_len \in {14, 15, MAX_OID_LEN}
  /\ registers \in [Oids -> Nat]

\* What is answered to a GET is the value of the OID that was asked for, and a
\* SET that was answered is done: so the callers of process_snmp_request take
\* it. With two threads, the control thread and the SPaT thread, this is what
\* snmp_client.h:66 says: "The OID to request information for".
AnswersWhatWasAsked ==
  \A t \in Threads : pc[t] = "true" =>
    IF request[t].type = "GET"
    THEN answer[t] = [oid |-> request[t].oid, val |-> registers[request[t].oid]]
    ELSE registers[request[t].oid] = request[t].val

\* A register of the controller changes only when a thread sends a SET of it
\* with that value, whatever was lost or refused before.
SetWasAsked ==
  \A o \in Oids : registers'[o] # registers[o] =>
    \E t \in Threads : /\ pc[t] = "send" /\ request[t].type = "SET"
                       /\ request[t].oid = o /\ registers'[o] = request[t].val

\* As long as no answer is lost and nothing is refused, every request succeeds:
\* the length that one request leaves never refuses the next.
SucceedsUnlessLost == \A t \in Threads : pc[t] = "false" => faults > 0
=============================================================================
