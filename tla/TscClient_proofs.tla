-------------------------- MODULE TscClient_proofs --------------------------
(***************************************************************************)
(* Two parts of tsc_client_service, each for any value of its constants.   *)
(* First, what the threads that share one snmp_client can and cannot do to *)
(* each other: a register is only set to what a SET asked for, and a       *)
(* thread that has the client to itself gets the answer to its own         *)
(* request. Then that phase control schedules are obeyed, whatever they    *)
(* are, whenever they come and whatever SETs are lost: what the converter  *)
(* makes of one tells, at every instant when something starts or ends,     *)
(* what is active then; the queue is always what the thread has not popped *)
(* of it yet; and every register that is not old has the value of the last *)
(* command popped for it.                                                  *)
(***************************************************************************)
EXTENDS SnmpClient, PhaseControlSchedule, FiniteSetTheorems, WellFoundedInduction, TLAPS


\* One thread sets, as the control thread does alone; any number of them reads.
OneSetter(s) == Setters = {s}

\* What a thread asks for is what its pdu was created for.
RequestInv ==
  /\ pc \in [Threads -> {"idle", "oid", "var", "send", "true", "false"}]
  /\ pdu \in Threads \cup {None}
  /\ pdus \in [Threads -> Pdu \cup {None}]
  /\ request \in [Threads -> (UNION {Request(t) : t \in Threads}) \cup {None}]
  /\ \A t \in Threads : pc[t] # "idle" => pdu # None /\ request[t] \in Request(t)
  /\ \A t \in Threads : pdus[t] # None => pc[t] # "idle" /\ pdus[t].type = request[t].type

\* The OID is never that of another control than the one that the setter asks for, and
\* neither is what its pdu asks for: another thread can only add what is not accepted.
SetterInv(s) ==
  /\ pc[s] = "var" => OID \in Status \cup {request[s].oid}
  /\ pdu = s /\ pdus[s] # None =>
       \A v \in pdus[s].vars : v.val # None =>
         /\ pc[s] = "send" /\ request[s].type = "SET" /\ v.val = request[s].val
         /\ v.oid \in Status \cup {request[s].oid}

-----------------------------------------------------------------------------
\* Only the setter asks for a SET, and only for a control.
LEMMA RequestProperties ==
  ASSUME NEW s, OneSetter(s), NEW t \in Threads, NEW r \in Request(t)
  PROVE  /\ r.type \in {"GET", "SET"}
         /\ r.type = "SET" => t = s /\ r.oid \in Controls /\ r.val \in Values
         /\ r.type = "GET" => r.oid \in Status
  BY DEF Request, OneSetter

LEMMA RequestStep ==
  ASSUME SnmpClientAssumption, NEW s, OneSetter(s), RequestInv, [Next]_vars,
         OID \in Oids \cup {None}
  PROVE  RequestInv' /\ OID' \in Oids \cup {None}
  <1> SUFFICES ASSUME Next PROVE RequestInv' /\ OID' \in Oids \cup {None}
    BY DEF vars, RequestInv
  <1>1. PICK t \in Threads : CreatePdu(t) \/ ReadObjid(t) \/ AddVar(t) \/ Send(t)
    BY DEF Next
  <1>2. CASE CreatePdu(t)
    <2>1. PICK r \in Request(t) :
            /\ request' = [request EXCEPT ![t] = r]
            /\ pdus' = [pdus EXCEPT ![t] = [type |-> r.type, vars |-> {}]]
      BY <1>2 DEF CreatePdu
    <2>2. r.type \in {"GET", "SET"}
      BY RequestProperties
    <2>3. t # None
      BY DEF SnmpClientAssumption
    <2> QED
      BY <1>2, <2>1, <2>2, <2>3 DEF CreatePdu, RequestInv, Pdu
  <1>3. CASE ReadObjid(t)
    <2>1. request[t].oid \in Oids
      BY <1>3, RequestProperties DEF ReadObjid, RequestInv, Oids
    <2>2. OID' \in Oids \cup {None}
      BY <1>3, <2>1 DEF ReadObjid, Torn, Oids
    <2> QED
      BY <1>3, <2>2 DEF ReadObjid, RequestInv
  <1>4. CASE AddVar(t)
    <2>1. UNCHANGED <<request, pdu, OID>> /\ pc[t] = "var" /\ pdu \in Threads
      BY <1>4 DEF AddVar, RequestInv
    <2>2. CASE pdus[pdu] = None
      BY <1>4, <2>1, <2>2 DEF AddVar, RequestInv
    <2>3. CASE pdus[pdu] # None
      <3> DEFINE v == [oid |-> OID,
                       val |-> IF request[t].type = "SET" THEN request[t].val ELSE None]
      <3>1. /\ pdus' = [pdus EXCEPT ![pdu].vars = @ \cup {v}]
            /\ pc' = [pc EXCEPT ![t] = "send"]
        BY <1>4, <2>3 DEF AddVar
      <3>2. v \in [oid : Oids \cup {None}, val : Nat \cup {None}]
        <4>1. request[t].type = "SET" => request[t].val \in Nat
          BY <2>1, RequestProperties DEF RequestInv, SnmpClientAssumption
        <4> QED
          BY <4>1
      <3> HIDE DEF v
      <3>3. /\ [pdus[pdu] EXCEPT !.vars = @ \cup {v}] \in Pdu
            /\ [pdus[pdu] EXCEPT !.vars = @ \cup {v}].type = pdus[pdu].type
        BY <2>1, <2>3, <3>2 DEF RequestInv, Pdu
      <3>4. \A u \in Threads : /\ pdus'[u] = None <=> pdus[u] = None
                               /\ pdus[u] # None => pdus'[u].type = pdus[u].type
        BY <2>1, <2>3, <3>1, <3>3 DEF RequestInv, SnmpClientAssumption
      <3>5. pdus' \in [Threads -> Pdu \cup {None}]
        BY <2>1, <2>3, <3>1, <3>3 DEF RequestInv
      <3> QED
        BY <2>1, <3>1, <3>4, <3>5 DEF RequestInv
    <2> QED
      BY <2>2, <2>3
  <1>5. CASE Send(t)
    <2>1. UNCHANGED <<request, pdu, OID>> /\ pc[t] = "send" /\ pdu \in Threads
      BY <1>5 DEF Send, RequestInv
    <2>2. pc' \in {pc, [pc EXCEPT ![t] = "true"], [pc EXCEPT ![t] = "false"]}
      BY <1>5 DEF Send, Answered, Refused, TimedOut, Succeed, Fail
    <2>3. pdus' \in {pdus, [pdus EXCEPT ![pdu] = None]}
      BY <1>5 DEF Send
    <2> QED
      BY <2>1, <2>2, <2>3 DEF RequestInv
  <1> QED
    BY <1>1, <1>2, <1>3, <1>4, <1>5

LEMMA SetterStep ==
  ASSUME SnmpClientAssumption, NEW s, OneSetter(s), RequestInv, SetterInv(s),
         [Next]_vars
  PROVE  SetterInv(s)'
  <1> SUFFICES ASSUME Next PROVE SetterInv(s)'
    BY DEF vars, SetterInv
  <1>0. s \in Threads
    BY DEF OneSetter, Threads
  <1>1. PICK t \in Threads : CreatePdu(t) \/ ReadObjid(t) \/ AddVar(t) \/ Send(t)
    BY DEF Next
  <1>2. CASE CreatePdu(t)
    <2>1. UNCHANGED OID /\ pc' = [pc EXCEPT ![t] = "oid"] /\ pdu' = t
      BY <1>2 DEF CreatePdu
    <2>2. t = s => pdus'[s].vars = {}
      BY <1>2 DEF CreatePdu, RequestInv
    <2>3. t # s => request'[s] = request[s]
      BY <1>2 DEF CreatePdu, RequestInv
    <2> QED
      BY <1>0, <2>1, <2>2, <2>3 DEF SetterInv, RequestInv
  <1>3. CASE ReadObjid(t)
    <2>1. UNCHANGED <<request, pdu, pdus>> /\ pc[t] = "oid"
      BY <1>3 DEF ReadObjid
    <2>2. pc' \in {[pc EXCEPT ![t] = "var"], [pc EXCEPT ![t] = "false"]}
      BY <1>3 DEF ReadObjid
    <2>3. OID' \in {OID, request[t].oid} \cup Status
      BY <1>3 DEF ReadObjid, Torn
    <2>4. t # s => request[t].oid \in Status
      BY <2>1, RequestProperties DEF RequestInv
    <2>5. t # s => pc'[s] = pc[s]
      BY <1>0, <2>2 DEF RequestInv
    <2>6. pc'[s] = "var" => OID' \in Status \cup {request[s].oid}
      <3>1. CASE t = s
        <4>1. pc'[s] = "var" => OID' \in {request[s].oid} \cup Status
          BY <1>0, <1>3, <3>1 DEF ReadObjid, Torn, RequestInv
        <4> QED
          BY <4>1
      <3>2. CASE t # s
        BY <2>3, <2>4, <2>5, <3>2 DEF SetterInv
      <3> QED
        BY <3>1, <3>2
    <2>7. t = s => ~ (pc[s] = "send")
      BY <2>1
    <2> QED
      BY <2>1, <2>5, <2>6, <2>7 DEF SetterInv
  <1>4. CASE AddVar(t)
    <2>1. UNCHANGED <<request, pdu, OID>> /\ pc[t] = "var" /\ pdu \in Threads
      BY <1>4 DEF AddVar, RequestInv
    <2>2. CASE pdus[pdu] = None
      BY <1>4, <2>1, <2>2 DEF AddVar, SetterInv
    <2>3. CASE pdus[pdu] # None
      <3> DEFINE w == [oid |-> OID,
                       val |-> IF request[t].type = "SET" THEN request[t].val ELSE None]
      <3>1. /\ pdus' = [pdus EXCEPT ![pdu].vars = @ \cup {w}]
            /\ pc' = [pc EXCEPT ![t] = "send"]
        BY <1>4, <2>3 DEF AddVar
      <3>2. w.val # None => t = s /\ request[s].type = "SET" /\ w.val = request[s].val
        BY <2>1, RequestProperties DEF RequestInv
      <3>3. w.oid = OID
        OBVIOUS
      <3> HIDE DEF w
      <3>4. pc'[s] = "var" => pc[s] = "var"
        BY <1>0, <3>1 DEF RequestInv
      <3>5. ASSUME pdu = s, NEW v \in pdus'[s].vars, v.val # None
            PROVE  /\ pc'[s] = "send" /\ request[s].type = "SET" /\ v.val = request[s].val
                   /\ v.oid \in Status \cup {request[s].oid}
        <4>1. v \in pdus[s].vars \/ v = w
          BY <1>0, <3>1, <3>5, <2>3 DEF RequestInv
        <4>2. CASE v \in pdus[s].vars
          <5>1. /\ pc[s] = "send" /\ request[s].type = "SET" /\ v.val = request[s].val
                /\ v.oid \in Status \cup {request[s].oid}
            BY <2>3, <3>5, <4>2 DEF SetterInv
          <5> QED
            BY <1>0, <3>1, <5>1 DEF RequestInv
        <4>3. CASE v = w
          <5>1. t = s /\ request[s].type = "SET" /\ v.val = request[s].val
            BY <3>2, <3>5, <4>3
          <5>2. v.oid \in Status \cup {request[s].oid}
            BY <2>1, <3>3, <4>3, <5>1 DEF SetterInv
          <5> QED
            BY <1>0, <3>1, <5>1, <5>2 DEF RequestInv
        <4> QED
          BY <4>1, <4>2, <4>3
      <3> QED
        BY <2>1, <3>4, <3>5 DEF SetterInv
    <2> QED
      BY <2>2, <2>3
  <1>5. CASE Send(t)
    <2>1. UNCHANGED <<request, pdu, OID>> /\ pc[t] = "send" /\ pdu \in Threads
      BY <1>5 DEF Send, RequestInv
    <2>2. CASE pdus[pdu] = None
      BY <1>5, <2>1, <2>2 DEF Send, SetterInv
    <2>3. CASE pdus[pdu] # None
      <3>1. /\ pdus' = [pdus EXCEPT ![pdu] = None]
            /\ pc' \in {[pc EXCEPT ![t] = "true"], [pc EXCEPT ![t] = "false"]}
        BY <1>5, <2>3 DEF Send, Answered, Refused, TimedOut, Succeed, Fail
      <3> QED
        BY <1>0, <2>1, <3>1 DEF SetterInv, RequestInv
    <2> QED
      BY <2>2, <2>3
  <1> QED
    BY <1>1, <1>2, <1>3, <1>4, <1>5

\* What the controller accepts of the setter's pdu is what the setter asked for.
LEMMA OnlyWhatWasAskedIsApplied ==
  ASSUME SnmpClientAssumption, NEW s, OneSetter(s), RequestInv, SetterInv(s),
         pdu \in Threads, pdus[pdu] # None, Accepted(pdus[pdu]),
         NEW o \in Oids, Applied(pdus[pdu])[o] # registers[o]
  PROVE  /\ pc[s] = "send" /\ request[s].type = "SET"
         /\ request[s].oid = o /\ Applied(pdus[pdu])[o] = request[s].val
  <1> DEFINE p == pdus[pdu]
             v == CHOOSE v \in p.vars : v.oid = o
  <1>1. p.type = "SET" /\ (\E u \in p.vars : u.oid = o) /\ Applied(p)[o] = v.val
    BY DEF Applied
  <1>2. v \in p.vars /\ v.oid = o
    BY <1>1
  <1>3. pdu = s
    <2>1. request[pdu].type = "SET" /\ request[pdu] \in Request(pdu)
      BY <1>1 DEF RequestInv
    <2> QED
      BY <2>1, RequestProperties
  <1>4. v.oid \notin Status /\ v.val # None
    BY <1>1, <1>2 DEF Accepted
  <1> HIDE DEF v
  <1>5. /\ pc[s] = "send" /\ request[s].type = "SET" /\ v.val = request[s].val
        /\ v.oid \in Status \cup {request[s].oid}
    BY <1>2, <1>3, <1>4 DEF SetterInv
  <1> QED
    BY <1>1, <1>2, <1>4, <1>5

\* Whatever two threads do to the pdu and the OID that they share, a register only
\* changes to what a SET under way asked for: any number of threads may read beside the
\* one that sets.
THEOREM OnlyTheAskedIsSet ==
  ASSUME SnmpClientAssumption, NEW s, OneSetter(s)
  PROVE  Spec => [][SetWasAsked]_vars
  <1> DEFINE Inv == RequestInv /\ SetterInv(s) /\ OID \in Oids \cup {None}
  <1>1. Init => Inv
    <2> SUFFICES ASSUME Init PROVE Inv
      OBVIOUS
    <2>1. s \in Threads
      BY DEF OneSetter, Threads
    <2>2. \A t \in Threads : pc[t] = "idle" /\ pdus[t] = None
      BY DEF Init
    <2>3. pdu = None /\ OID = None
      BY DEF Init
    <2>4. RequestInv
      <3>1. pc \in [Threads -> {"idle", "oid", "var", "send", "true", "false"}]
        BY DEF Init
      <3>2. pdus \in [Threads -> Pdu \cup {None}]
        BY DEF Init
      <3>3. request \in [Threads -> (UNION {Request(t) : t \in Threads}) \cup {None}]
        BY DEF Init
      <3> QED
        BY <2>2, <2>3, <3>1, <3>2, <3>3 DEF RequestInv
    <2>5. SetterInv(s)
      BY <2>1, <2>2 DEF SetterInv
    <2> QED
      BY <2>3, <2>4, <2>5
  <1>2. Inv /\ [Next]_vars => Inv'
    BY RequestStep, SetterStep
  <1>3. Inv /\ [Next]_vars => [SetWasAsked]_vars
    <2> SUFFICES ASSUME Inv, Next, NEW o \in Oids, registers'[o] # registers[o]
                 PROVE  \E t \in Threads : /\ pc[t] = "send" /\ request[t].type = "SET"
                                           /\ request[t].oid = o
                                           /\ registers'[o] = request[t].val
      BY DEF SetWasAsked
    <2>1. PICK t \in Threads : CreatePdu(t) \/ ReadObjid(t) \/ AddVar(t) \/ Send(t)
      BY DEF Next
    <2>2. Send(t) /\ pdus[pdu] # None
      BY <2>1 DEF CreatePdu, ReadObjid, AddVar, Send
    <2>3. Accepted(pdus[pdu]) /\ registers' = Applied(pdus[pdu])
      BY <2>2 DEF Send, Answered, Refused, TimedOut
    <2>4. pdu \in Threads /\ s \in Threads
      BY <2>2 DEF Send, RequestInv, OneSetter, Threads
    <2> QED
      BY <2>2, <2>3, <2>4, OnlyWhatWasAskedIsApplied
  <1> HIDE DEF Inv
  <1> QED
    BY <1>1, <1>2, <1>3, PTL DEF Spec

-----------------------------------------------------------------------------
(***************************************************************************)
(* One thread that has the client to itself.                               *)
(***************************************************************************)

\* What the pdu of thread t asks for once its variable was added.
Asks(t) ==
  [type |-> request[t].type,
   vars |-> {[oid |-> request[t].oid,
              val |-> IF request[t].type = "SET" THEN request[t].val ELSE None]}]

\* The members hold what the one thread has put there, and only a request that failed
\* leaves less room for the OID of the next.
AloneInv(t) ==
  /\ up /\ pc[t] \in {"idle", "oid", "var", "send", "true", "false"}
  /\ pc \in [Threads -> {"idle", "oid", "var", "send", "true", "false"}]
  /\ pdus \in [Threads -> Pdu \cup {None}] /\ faults \in Nat
  /\ request \in [Threads -> (UNION {Request(u) : u \in Threads}) \cup {None}]
  /\ answer \in [Threads -> [oid : Oids, val : Nat] \cup {None}]
  /\ registers \in [Oids -> Nat]
  /\ pc[t] # "idle" => request[t] \in Request(t) /\ pdu = t
  /\ pc[t] = "oid" => pdus[t] = [type |-> request[t].type, vars |-> {}]
  /\ pc[t] = "var" => OID = request[t].oid /\ pdus[t] = [type |-> request[t].type, vars |-> {}]
  /\ pc[t] = "send" => pdus[t] = Asks(t)
  /\ OID_len \in {14, 15, MAX_OID_LEN}
  /\ OID_len = MAX_OID_LEN \/ pc[t] \in {"var", "send"} \/ faults > 0

LEMMA AloneStep ==
  ASSUME SnmpClientAssumption, NEW t, Threads = {t},
         AloneInv(t), AnswersWhatWasAsked, SucceedsUnlessLost, [Next]_vars
  PROVE  AloneInv(t)' /\ AnswersWhatWasAsked' /\ SucceedsUnlessLost'
  <1> SUFFICES ASSUME Next
               PROVE  AloneInv(t)' /\ AnswersWhatWasAsked' /\ SucceedsUnlessLost'
    BY DEF vars, AloneInv, Asks, AnswersWhatWasAsked, SucceedsUnlessLost
  <1>0. /\ t \in Threads /\ t # None /\ up
        /\ CreatePdu(t) \/ ReadObjid(t) \/ AddVar(t) \/ Send(t)
    BY DEF Next, SnmpClientAssumption, AloneInv
  <1>a. ASSUME NEW r \in Request(t)
        PROVE  /\ r.type \in {"GET", "SET"} /\ r.oid \in Oids
               /\ r.type = "SET" => r.val \in Nat /\ r.val # None /\ r.oid \notin Status
    BY DEF Request, Oids, SnmpClientAssumption
  <1>b. \A o : LengthOf(o) \in {14, 15}
    BY DEF LengthOf
  <1>2. CASE CreatePdu(t)
    <2>1. PICK r \in Request(t) :
            /\ request' = [request EXCEPT ![t] = r]
            /\ pdus' = [pdus EXCEPT ![t] = [type |-> r.type, vars |-> {}]]
      BY <1>2 DEF CreatePdu
    <2>2. [type |-> r.type, vars |-> {}] \in Pdu
      BY <1>a DEF Pdu
    <2>3. /\ pc' = [pc EXCEPT ![t] = "oid"] /\ answer' = [answer EXCEPT ![t] = None]
          /\ pdu' = t /\ UNCHANGED <<up, OID, OID_len, registers, faults>>
          /\ pc[t] \in {"idle", "true", "false"}
      BY <1>2 DEF CreatePdu
    <2> QED
      BY <1>0, <2>1, <2>2, <2>3 DEF AloneInv, AnswersWhatWasAsked, SucceedsUnlessLost
  <1>3. CASE ReadObjid(t)
    <2>1. /\ UNCHANGED <<up, request, answer, pdus, pdu, registers, requests, faults>>
          /\ pc[t] = "oid" /\ Torn(t) = {} /\ faults \in Nat
      BY <1>3 DEF ReadObjid, Torn, AloneInv
    <2>2. CASE LengthOf(request[t].oid) <= OID_len
      BY <1>0, <1>3, <1>b, <2>1, <2>2
         DEF ReadObjid, AloneInv, Asks, AnswersWhatWasAsked, SucceedsUnlessLost
    <2>3. CASE ~ (LengthOf(request[t].oid) <= OID_len)
      <3>1. faults > 0
        BY <1>b, <2>1, <2>3 DEF AloneInv, MAX_OID_LEN
      <3> QED
        BY <1>0, <1>3, <2>1, <2>3, <3>1
           DEF ReadObjid, AloneInv, Asks, AnswersWhatWasAsked, SucceedsUnlessLost
    <2> QED
      BY <2>2, <2>3
  <1>4. CASE AddVar(t)
    <2>1. /\ UNCHANGED <<request, answer, pdu, OID, OID_len, registers, requests, faults>>
          /\ pc[t] = "var" /\ pdu = t /\ OID = request[t].oid
          /\ pdus[t] = [type |-> request[t].type, vars |-> {}]
          /\ request[t] \in Request(t)
      BY <1>4 DEF AddVar, AloneInv
    <2>2. pdus[t] # None
      BY <1>0, <1>a, <2>1 DEF Pdu, SnmpClientAssumption
    <2>3. /\ pdus' = [pdus EXCEPT ![t] = Asks(t)] /\ pc' = [pc EXCEPT ![t] = "send"] /\ up'
      <3> DEFINE v == [oid |-> request[t].oid,
                       val |-> IF request[t].type = "SET" THEN request[t].val ELSE None]
      <3>1. /\ pdus' = [pdus EXCEPT ![t] = [pdus[t] EXCEPT !.vars = pdus[t].vars \cup {v}]]
            /\ pc' = [pc EXCEPT ![t] = "send"] /\ up'
        BY <1>0, <1>4, <2>1, <2>2 DEF AddVar, AloneInv
      <3>2. Asks(t) = [type |-> request[t].type, vars |-> {v}]
        BY DEF Asks
      <3> HIDE DEF v
      <3>3. [pdus[t] EXCEPT !.vars = pdus[t].vars \cup {v}] = Asks(t)
        BY <2>1, <3>2
      <3> QED
        BY <3>1, <3>3
    <2>4. Asks(t) \in Pdu
      BY <1>a, <2>1 DEF Asks, Pdu
    <2>5. Asks(t)' = Asks(t)
      BY <2>1 DEF Asks
    <2> QED
      BY <1>0, <2>1, <2>3, <2>4, <2>5 DEF AloneInv, AnswersWhatWasAsked, SucceedsUnlessLost
  <1>5. CASE Send(t)
    <2> DEFINE v == [oid |-> request[t].oid,
                     val |-> IF request[t].type = "SET" THEN request[t].val ELSE None]
    <2>1. /\ UNCHANGED <<request, pdu, OID, requests>> /\ pc[t] = "send" /\ pdu = t
          /\ pdus[t] = Asks(t) /\ request[t] \in Request(t) /\ faults \in Nat
      BY <1>5 DEF Send, AloneInv
    <2>2. Asks(t).type = request[t].type /\ Asks(t).vars = {v}
      BY DEF Asks
    <2>3. /\ request[t].type \in {"GET", "SET"} /\ request[t].oid \in Oids
          /\ request[t].type = "SET" => /\ request[t].val \in Nat /\ request[t].val # None
                                        /\ request[t].oid \notin Status
      BY <1>a, <2>1
    <2>4. pdus[t] # None
      <3>1. Asks(t) \in Pdu
        BY <2>3 DEF Asks, Pdu
      <3> QED
        BY <2>1, <3>1 DEF SnmpClientAssumption
    <2>5. Accepted(pdus[t])
      BY <2>1, <2>2, <2>3 DEF Accepted
    <2>6. /\ Applied(pdus[t]) \in [Oids -> Nat]
          /\ request[t].type = "SET" => Applied(pdus[t])[request[t].oid] = request[t].val
          /\ request[t].type = "GET" => Applied(pdus[t]) = registers
      <3>1. request[t].type = "SET" =>
              Applied(pdus[t]) = [o \in Oids |-> IF request[t].oid = o THEN request[t].val
                                                                      ELSE registers[o]]
        <4> SUFFICES ASSUME request[t].type = "SET", NEW o \in Oids
                     PROVE  Applied(pdus[t])[o] = IF request[t].oid = o THEN request[t].val
                                                                       ELSE registers[o]
          BY DEF Applied
        <4>1. v.oid = request[t].oid /\ v.val = request[t].val
          OBVIOUS
        <4>2. pdus[t].type = "SET" /\ pdus[t].vars = {v}
          BY <2>1, <2>2
        <4> HIDE DEF v
        <4>3. CASE request[t].oid = o
          <5>1. (CHOOSE w \in pdus[t].vars : w.oid = o) = v
            BY <4>1, <4>2, <4>3
          <5> QED
            BY <4>1, <4>2, <4>3, <5>1 DEF Applied
        <4>4. CASE request[t].oid # o
          BY <4>1, <4>2, <4>4 DEF Applied
        <4> QED
          BY <4>3, <4>4
      <3>2. request[t].type = "GET" => Applied(pdus[t]) = [o \in Oids |-> registers[o]]
        BY <2>1, <2>2 DEF Applied
      <3> QED
        BY <2>3, <3>1, <3>2 DEF AloneInv
    <2>7. pdus' = [pdus EXCEPT ![t] = None] /\ up'
      BY <1>0, <1>5, <2>1, <2>4 DEF Send
    <2>8. CASE Answered(t)
      <3>1. /\ registers' = Applied(pdus[t]) /\ UNCHANGED faults
            /\ pc' = [pc EXCEPT ![t] = "true"] /\ OID_len' = MAX_OID_LEN
            /\ answer' = [answer EXCEPT ![t] =
                 IF request[t].type = "GET"
                 THEN [oid |-> request[t].oid, val |-> registers[request[t].oid]] ELSE None]
        <4>1. Succeed(t, IF request[t].type = "GET"
                         THEN [oid |-> request[t].oid, val |-> registers[request[t].oid]]
                         ELSE None)
          <5>1. CASE request[t].type = "SET"
            BY <2>1, <2>8, <5>1 DEF Answered
          <5>2. CASE request[t].type = "GET"
            <6>1. pdus[t].vars = {v}
              BY <2>1, <2>2
            <6>2. pdus[t].vars # {}
              BY <6>1
            <6>3. PICK w \in pdus[t].vars :
                    Succeed(t, [oid |-> w.oid, val |-> registers[w.oid]])
              BY <2>1, <2>8, <5>2, <6>2 DEF Answered
            <6>4. w.oid = request[t].oid
              BY <6>1
            <6> QED
              BY <5>2, <6>3, <6>4
          <5> QED
            BY <2>3, <5>1, <5>2
        <4>4. registers' = Applied(pdus[t]) /\ UNCHANGED faults
          BY <2>1, <2>8 DEF Answered
        <4> QED
          BY <4>1, <4>4 DEF Succeed
      <3>2. AloneInv(t)'
        BY <1>0, <2>1, <2>3, <2>6, <2>7, <3>1 DEF AloneInv
      <3>3. AnswersWhatWasAsked'
        BY <1>0, <2>1, <2>3, <2>6, <3>1 DEF AloneInv, AnswersWhatWasAsked
      <3>4. SucceedsUnlessLost'
        BY <1>0, <3>1 DEF AloneInv, SucceedsUnlessLost
      <3> QED
        BY <3>2, <3>3, <3>4
    <2>9. CASE Refused(t) \/ TimedOut(t)
      <3>1. /\ faults' = faults + 1 /\ pc' = [pc EXCEPT ![t] = "false"]
            /\ UNCHANGED <<answer, OID_len>> /\ registers' \in {registers, Applied(pdus[t])}
        BY <2>1, <2>5, <2>9 DEF Refused, TimedOut, Fail
      <3>2. faults' > 0 /\ faults' \in Nat
        BY <2>1, <3>1
      <3>3. AloneInv(t)'
        BY <1>0, <2>1, <2>6, <2>7, <3>1, <3>2 DEF AloneInv
      <3> QED
        BY <1>0, <3>1, <3>2, <3>3 DEF AnswersWhatWasAsked, SucceedsUnlessLost, AloneInv
    <2> QED
      BY <1>5, <2>1, <2>4, <2>8, <2>9 DEF Send
  <1> QED
    BY <1>0, <1>2, <1>3, <1>4, <1>5

\* A thread that has the client to itself gets the answer to its own request, and fails
\* only when something was lost or refused before: also when an earlier failure has left
\* its own length for the OID, for any requests of any length.
THEOREM AloneIsAnswered ==
  ASSUME SnmpClientAssumption, NEW t, Threads = {t}
  PROVE  Spec => [](AnswersWhatWasAsked /\ SucceedsUnlessLost)
  <1> DEFINE Inv == AloneInv(t) /\ AnswersWhatWasAsked /\ SucceedsUnlessLost
  <1>1. Init => Inv
    <2> SUFFICES ASSUME Init PROVE Inv
      OBVIOUS
    <2>1. \A u \in Threads : pc[u] = "idle"
      BY DEF Init
    <2>2. /\ up /\ OID_len = MAX_OID_LEN /\ faults \in Nat
          /\ pc \in [Threads -> {"idle", "oid", "var", "send", "true", "false"}]
          /\ pdus \in [Threads -> Pdu \cup {None}]
          /\ answer \in [Threads -> [oid : Oids, val : Nat] \cup {None}]
          /\ registers \in [Oids -> Nat]
      BY DEF Init
    <2>3. request \in [Threads -> (UNION {Request(u) : u \in Threads}) \cup {None}]
      BY DEF Init
    <2>4. t \in Threads
      OBVIOUS
    <2> QED
      BY <2>1, <2>2, <2>3, <2>4 DEF AloneInv, AnswersWhatWasAsked, SucceedsUnlessLost
  <1>2. Inv /\ [Next]_vars => Inv'
    BY AloneStep
  <1>3. Inv => AnswersWhatWasAsked /\ SucceedsUnlessLost
    OBVIOUS
  <1> HIDE DEF Inv
  <1> QED
    BY <1>1, <1>2, <1>3, PTL DEF Spec

-----------------------------------------------------------------------------
(***************************************************************************)
(* Phase control schedules: what is assumed of them.                       *)
(***************************************************************************)
\* Schedules that say of every phase and instant one thing.
Clear(cmds) ==
  /\ cmds \in Seq(ScheduleCommand)
  /\ \A i \in DOMAIN cmds : cmds[i].start <= cmds[i].end
  /\ Apart(cmds) /\ EndsAlone(cmds)

\* The phases that are active when an instant begins.
Before(cmds, t, time) ==
  {p \in 1..8 : \E i \in DOMAIN cmds : /\ cmds[i].type = t /\ cmds[i].phase = p
                                       /\ cmds[i].start < time /\ time <= cmds[i].end}

-----------------------------------------------------------------------------
(***************************************************************************)
(* Induction, and the recursions of the converter.                         *)
(***************************************************************************)

\* A set of natural numbers that is not empty has a least element.
LEMMA LeastElement ==
  ASSUME NEW S \in SUBSET Nat, S # {}
  PROVE  \E x \in S : \A y \in S : x <= y
<1> DEFINE Less == {ss \in Nat \X Nat : ss[1] < ss[2]}
<1>1. IsWellFoundedOn(Less, Nat)
  BY NatLessThanWellFounded DEF OpToRel
<1>2. PICK x \in S : \A y \in S : ~ (<<y, x>> \in Less)
  BY <1>1, WFMin
<1>3. \A y \in S : y < x => <<y, x>> \in Less
  OBVIOUS
<1>4. \A y \in S : y \in Nat /\ ~ (y < x)
  BY <1>2, <1>3
<1>5. \A y \in S : x <= y
  BY <1>4
<1> QED
  BY <1>5

\* Induction up to N, for a set in place of a predicate.
LEMMA Climb ==
  ASSUME NEW N \in Nat, NEW I, 0 \in I, \A n \in 1 .. N : n - 1 \in I => n \in I
  PROVE  N \in I
<1> SUFFICES ASSUME N \notin I PROVE FALSE
  OBVIOUS
<1> DEFINE Missed == {n \in 0 .. N : n \notin I}
<1>1. PICK n \in Missed : \A m \in Missed : n <= m
  <2>1. Missed \in SUBSET Nat /\ N \in Missed
    OBVIOUS
  <2> QED
    BY <2>1, LeastElement
<1>2. n \in 1 .. N /\ n - 1 \in 0 .. N /\ n - 1 \notin Missed
  BY <1>1
<1> QED
  BY <1>1, <1>2

\* The steps of Pushed.
PushedSteps(f, out, order, types, time, vals) ==
  /\ Pushed(out, order, types, time, vals) = f[Len(order)]
  /\ f[0] = out
  /\ \A n \in 1 .. Len(order) :
       f[n] = IF order[n] \in types
              THEN Append(f[n - 1], [type |-> order[n], at |-> time, val |-> vals[order[n]]])
              ELSE f[n - 1]

LEMMA PushedRecursion ==
  ASSUME NEW out, NEW order, Len(order) \in Nat, NEW types, NEW time, NEW vals
  PROVE  \E f : PushedSteps(f, out, order, types, time, vals)
<1> DEFINE N == Len(order)
           Body(n, before) == IF order[n] \in types
             THEN Append(before, [type |-> order[n], at |-> time, val |-> vals[order[n]]])
             ELSE before
           Solves(f, m) == f = [n \in 0 .. m |-> IF n = 0 THEN out ELSE Body(n, f[n - 1])]
           Solved == {m \in Nat : \E f : Solves(f, m)}
           F == CHOOSE f : Solves(f, N)
<1>1. Pushed(out, order, types, time, vals) = F[N]
  BY DEF Pushed
<1> HIDE DEF Body
<1>2. 0 \in Solved
  <2> DEFINE f == [n \in 0 .. 0 |-> out]
  <2>1. Solves(f, 0)
    OBVIOUS
  <2> QED
    BY <2>1
<1>3. ASSUME NEW m \in 1 .. N, m - 1 \in Solved PROVE m \in Solved
  <2>1. PICK f : Solves(f, m - 1)
    BY <1>3
  <2> DEFINE g == [n \in 0 .. m |-> IF n = 0 THEN out ELSE Body(n, f[n - 1])]
  <2>2. \A n \in 0 .. m - 1 : f[n] = IF n = 0 THEN out ELSE Body(n, f[n - 1])
    BY <2>1
  <2>3. \A n \in 0 .. m - 1 : n \in 0 .. m
    OBVIOUS
  <2>4. \A n \in 0 .. m - 1 : g[n] = f[n]
    BY <2>2, <2>3
  <2>5. \A n \in 0 .. m : n # 0 => n - 1 \in 0 .. m - 1
    OBVIOUS
  <2>6. \A n \in 0 .. m : n # 0 => g[n - 1] = f[n - 1]
    BY <2>4, <2>5
  <2>7. \A n \in 0 .. m :
          g[n] = IF n = 0 THEN out ELSE Body(n, g[n - 1])
    BY <2>6
  <2>8. g = [n \in 0 .. m |-> g[n]]
    OBVIOUS
  <2> HIDE DEF g
  <2>9. Solves(g, m)
    BY <2>7, <2>8
  <2> QED
    BY <2>9
<1>4. N \in Solved
  <2> HIDE DEF Solved
  <2>1. N \in Nat /\ \A m \in 1 .. N : m - 1 \in Solved => m \in Solved
    BY <1>3
  <2> HIDE DEF N
  <2> QED
    BY <1>2, <2>1, Climb
<1>5. Solves(F, N)
  BY <1>4
<1> HIDE DEF F
<1>6. F[0] = out /\ \A n \in 1 .. N : F[n] = Body(n, F[n - 1])
  BY <1>5
<1> QED
  BY <1>1, <1>6 DEF Body, PushedSteps

\* The steps of the converter, one for each instant.
LEMMA ConverterRecursion ==
  ASSUME NEW cmds, AllEnded(cmds) \in Nat
  PROVE  \E f : /\ SnmpCmds(cmds) = f[AllEnded(cmds)].out
                /\ f[0] = [vals |-> AllClear, out |-> <<>>]
                /\ \A n \in 1 .. AllEnded(cmds) : f[n] = AtTime(cmds, f[n - 1], n - 1)
<1> DEFINE N == AllEnded(cmds)
           Body(n, before) == AtTime(cmds, before, n - 1)
           Solves(f, m) ==
             f = [n \in 0 .. m |-> IF n = 0 THEN [vals |-> AllClear, out |-> <<>>]
                                             ELSE Body(n, f[n - 1])]
           Solved == {m \in Nat : \E f : Solves(f, m)}
           F == CHOOSE f : Solves(f, N)
<1>1. SnmpCmds(cmds) = F[N].out
  BY DEF SnmpCmds
<1> HIDE DEF Body
<1>2. 0 \in Solved
  <2> DEFINE f == [n \in 0 .. 0 |-> [vals |-> AllClear, out |-> <<>>]]
  <2>1. Solves(f, 0)
    OBVIOUS
  <2> QED
    BY <2>1
<1>3. ASSUME NEW m \in 1 .. N, m - 1 \in Solved PROVE m \in Solved
  <2>1. PICK f : Solves(f, m - 1)
    BY <1>3
  <2> DEFINE g == [n \in 0 .. m |-> IF n = 0 THEN [vals |-> AllClear, out |-> <<>>]
                                              ELSE Body(n, f[n - 1])]
  <2>2. \A n \in 0 .. m - 1 : f[n] = IF n = 0 THEN [vals |-> AllClear, out |-> <<>>]
                                             ELSE Body(n, f[n - 1])
    BY <2>1
  <2>3. \A n \in 0 .. m - 1 : n \in 0 .. m
    OBVIOUS
  <2>4. \A n \in 0 .. m - 1 : g[n] = f[n]
    BY <2>2, <2>3
  <2>5. \A n \in 0 .. m : n # 0 => n - 1 \in 0 .. m - 1
    OBVIOUS
  <2>6. \A n \in 0 .. m : n # 0 => g[n - 1] = f[n - 1]
    BY <2>4, <2>5
  <2>7. \A n \in 0 .. m :
          g[n] = IF n = 0 THEN [vals |-> AllClear, out |-> <<>>] ELSE Body(n, g[n - 1])
    BY <2>6
  <2>8. g = [n \in 0 .. m |-> g[n]]
    OBVIOUS
  <2> HIDE DEF g
  <2>9. Solves(g, m)
    BY <2>7, <2>8
  <2> QED
    BY <2>9
<1>4. N \in Solved
  <2> HIDE DEF Solved
  <2>1. N \in Nat /\ \A m \in 1 .. N : m - 1 \in Solved => m \in Solved
    BY <1>3
  <2> HIDE DEF N
  <2> QED
    BY <1>2, <2>1, Climb
<1>5. Solves(F, N)
  BY <1>4
<1> HIDE DEF F
<1>6. F[0] = [vals |-> AllClear, out |-> <<>>] /\ \A n \in 1 .. N : F[n] = Body(n, F[n - 1])
  BY <1>5
<1> QED
  BY <1>1, <1>6 DEF Body

-----------------------------------------------------------------------------
(***************************************************************************)
(* The values of the converter, at one instant.                            *)
(***************************************************************************)

\* The fields of the commands of a clear schedule.
LEMMA CommandFields ==
  ASSUME NEW cmds, Clear(cmds)
  PROVE  \A i \in DOMAIN cmds : /\ cmds[i].type \in Types /\ cmds[i].phase \in Nat
                                /\ cmds[i].start \in Nat /\ cmds[i].end \in Nat
                                /\ cmds[i].start <= cmds[i].end
<1>1. \A i \in DOMAIN cmds : cmds[i] \in ScheduleCommand
  BY DEF Clear
<1> QED
  BY <1>1 DEF Clear, ScheduleCommand

\* After the phases that start and those that end the active ones are left.
LEMMA ValueAtTime ==
  ASSUME NEW cmds, Clear(cmds), NEW t \in Types, NEW time \in Nat
  PROVE  BitwiseXor(BitwiseOr(Before(cmds, t, time), cmds, Starting(cmds, t, time)),
                    cmds, Ending(cmds, t, time))
         = Active(cmds, t, time)
<1> DEFINE on == BitwiseOr(Before(cmds, t, time), cmds, Starting(cmds, t, time))
           off == BitwiseXor(on, cmds, Ending(cmds, t, time))
           Ended(p) == {i \in Ending(cmds, t, time) : cmds[i].phase = p}
           Of(i, p) == i \in DOMAIN cmds /\ cmds[i].type = t /\ cmds[i].phase = p
<1>1. \A i \in DOMAIN cmds : /\ cmds[i].start \in Nat /\ cmds[i].end \in Nat
                             /\ cmds[i].start <= cmds[i].end
  BY CommandFields
<1>2. \A p \in 1..8 : p \in on <=> \E i : Of(i, p) /\ cmds[i].start <= time /\ time <= cmds[i].end
  <2> SUFFICES ASSUME NEW p \in 1..8
               PROVE  p \in on <=> \E i : Of(i, p) /\ cmds[i].start <= time /\ time <= cmds[i].end
    OBVIOUS
  <2>1. p \in on <=> \/ \E i : Of(i, p) /\ cmds[i].start < time /\ time <= cmds[i].end
                     \/ \E i : Of(i, p) /\ cmds[i].start = time
    BY DEF BitwiseOr, Before, Starting
  <2>2. \A i : Of(i, p) => (cmds[i].start <= time /\ time <= cmds[i].end
                              <=> \/ cmds[i].start < time /\ time <= cmds[i].end
                                  \/ cmds[i].start = time)
    BY <1>1
  <2> QED
    BY <2>1, <2>2
<1>3. \A p \in 1..8 : \A i, j : Of(i, p) /\ Of(j, p) /\ i # j
        => cmds[i].end < cmds[j].start \/ cmds[j].end < cmds[i].start
  BY DEF Clear, Apart
<1>4. ASSUME NEW p \in 1..8
      PROVE  p \in off <=> p \in Active(cmds, t, time)
  <2>1. p \in off <=> ((p \in on) # (Cardinality(Ended(p)) % 2 = 1))
    BY DEF BitwiseXor
  <2>2. p \in Active(cmds, t, time)
          <=> \E i : Of(i, p) /\ cmds[i].start <= time /\ time < cmds[i].end
    BY DEF Active
  <2>3. \A i : i \in Ended(p) <=> Of(i, p) /\ cmds[i].end = time
    BY DEF Ending
  <2> HIDE DEF on, off, Ended
  <2>4. CASE Ended(p) = {}
    <3>1. Cardinality(Ended(p)) = 0
      BY <2>4, FS_EmptySet
    <3>2. p \in off <=> p \in on
      BY <2>1, <3>1
    <3>3. \A i : Of(i, p) => (cmds[i].start <= time /\ time <= cmds[i].end
                                <=> cmds[i].start <= time /\ time < cmds[i].end)
      BY <1>1, <2>3, <2>4
    <3> QED
      BY <1>2, <2>2, <3>2, <3>3
  <2>5. CASE Ended(p) # {}
    <3>1. PICK i : Of(i, p) /\ cmds[i].end = time
      BY <2>3, <2>5
    <3>2. \A j : j \in Ended(p) => j = i
      BY <1>1, <1>3, <2>3, <3>1
    <3>3. Ended(p) = {i}
      BY <2>3, <3>1, <3>2
    <3>4. Cardinality(Ended(p)) = 1
      BY <3>3, FS_Singleton
    <3>5. p \in on
      BY <1>1, <1>2, <3>1
    <3>6. p \notin off
      BY <2>1, <3>4, <3>5
    <3>7. ASSUME NEW j, Of(j, p), cmds[j].start <= time, time < cmds[j].end PROVE FALSE
      <4>1. j # i
        BY <1>1, <3>1, <3>7
      <4>2. cmds[i].end < cmds[j].start \/ cmds[j].end < cmds[i].start
        BY <1>3, <3>1, <3>7, <4>1
      <4> QED
        BY <1>1, <3>1, <3>7, <4>2
    <3> QED
      BY <2>2, <3>6, <3>7
  <2> QED
    BY <2>4, <2>5
<1>5. off \subseteq 1..8 /\ Active(cmds, t, time) \subseteq 1..8
  BY DEF BitwiseXor, Active
<1> QED
  BY <1>4, <1>5

\* Without a start it is the same without the phases that start, and without an end, too,
\* nothing changes.
LEMMA ValueBetweenStarts ==
  ASSUME NEW cmds, Clear(cmds), NEW t \in Types, NEW time \in Nat,
         Starting(cmds, t, time) = {}
  PROVE  /\ BitwiseXor(Before(cmds, t, time), cmds, Ending(cmds, t, time))
              = Active(cmds, t, time)
         /\ Ending(cmds, t, time) = {} => Before(cmds, t, time) = Active(cmds, t, time)
<1>1. BitwiseOr(Before(cmds, t, time), cmds, {}) = Before(cmds, t, time)
  BY DEF BitwiseOr, Before
<1>2. BitwiseXor(Before(cmds, t, time), cmds, Ending(cmds, t, time)) = Active(cmds, t, time)
  BY <1>1, ValueAtTime
<1>3. BitwiseXor(Before(cmds, t, time), cmds, {}) = Before(cmds, t, time)
  <2>1. \A p : {i \in {} : cmds[i].phase = p} = {}
    OBVIOUS
  <2>2. Cardinality({}) = 0
    BY FS_EmptySet
  <2>3. \A p : ~ (Cardinality({i \in {} : cmds[i].phase = p}) % 2 = 1)
    BY <2>1, <2>2
  <2> QED
    BY <2>3 DEF BitwiseXor, Before
<1> QED
  BY <1>2, <1>3

\* What is active at an instant is what is when the next one begins.
LEMMA NextInstant ==
  ASSUME NEW cmds, Clear(cmds), NEW t, NEW time \in Nat
  PROVE  Before(cmds, t, time + 1) = Active(cmds, t, time)
<1>1. \A i \in DOMAIN cmds : cmds[i].start \in Nat /\ cmds[i].end \in Nat
  BY CommandFields
<1>2. \A i \in DOMAIN cmds : cmds[i].start < time + 1 /\ time + 1 <= cmds[i].end
                             <=> cmds[i].start <= time /\ time < cmds[i].end
  BY <1>1
<1> QED
  BY <1>2 DEF Before, Active

-----------------------------------------------------------------------------
(***************************************************************************)
(* What the converter makes of a schedule.                                 *)
(***************************************************************************)

\* One command is put behind the others for each of the types.
Behind(new, out, types, time, vals) ==
  /\ new \in Seq(Command) /\ Len(out) <= Len(new)
  /\ \A i \in 1 .. Len(out) : new[i] = out[i]
  /\ \A i \in Len(out) + 1 .. Len(new) :
       new[i].at = time /\ new[i].type \in types /\ new[i].val = vals[new[i].type]
  /\ \A t \in types : \E i \in 1 .. Len(new) : new[i].type = t /\ new[i].at = time

LEMMA PushedIsRight ==
  ASSUME NEW out \in Seq(Command), NEW order \in Seq(Types), NEW types \in SUBSET Types,
         \A t \in Types : \E n \in 1 .. Len(order) : order[n] = t,
         NEW time \in Nat, NEW vals \in [Types -> SUBSET (1..8)]
  PROVE  Behind(Pushed(out, order, types, time, vals), out, types, time, vals)
<1> DEFINE N == Len(order)
           Right(new, n) ==
             /\ new \in Seq(Command) /\ Len(out) <= Len(new)
             /\ \A i \in 1 .. Len(out) : new[i] = out[i]
             /\ \A i \in Len(out) + 1 .. Len(new) :
                  new[i].at = time /\ new[i].type \in types /\ new[i].val = vals[new[i].type]
             /\ \A m \in 1 .. n : order[m] \in types =>
                  \E i \in 1 .. Len(new) : new[i].type = order[m] /\ new[i].at = time
<1>1. N \in Nat /\ \A n \in 1 .. N : order[n] \in Types
  OBVIOUS
<1>2. PICK f : PushedSteps(f, out, order, types, time, vals)
  BY <1>1, PushedRecursion
<1>3. /\ Pushed(out, order, types, time, vals) = f[N]
      /\ f[0] = out
      /\ \A n \in 1 .. N :
           f[n] = IF order[n] \in types
                  THEN Append(f[n - 1], [type |-> order[n], at |-> time, val |-> vals[order[n]]])
                  ELSE f[n - 1]
  BY <1>2 DEF PushedSteps
<1> DEFINE I == {n \in 0 .. N : Right(f[n], n)}
<1>4. 0 \in I
  <2>1. Right(out, 0)
    OBVIOUS
  <2> HIDE DEF Right
  <2> QED
    BY <1>3, <1>1, <2>1
<1>5. ASSUME NEW n \in 1 .. N, n - 1 \in I PROVE n \in I
  <2> DEFINE prior == f[n - 1]
             m == n - 1
  <2>1. Right(prior, m) /\ m \in Nat /\ \A k \in 1 .. n : k \in 1 .. m \/ k = n
    <3>1. Right(prior, m)
      BY <1>5
    <3> HIDE DEF Right
    <3> QED
      BY <1>1, <3>1
  <2> DEFINE c == [type |-> order[n], at |-> time, val |-> vals[order[n]]]
  <2>2. f[n] = IF order[n] \in types THEN Append(prior, c) ELSE prior
    BY <1>3
  <2> HIDE DEF prior, m
  <2>3. Right(f[n], n)
    <3>1. CASE order[n] \in types
      <4>1. c \in Command
        BY <1>1 DEF Command
      <4>2. c.type = order[n] /\ c.at = time /\ c.val = vals[order[n]]
        OBVIOUS
      <4> HIDE DEF c
      <4>3. /\ f[n] = Append(prior, c) /\ f[n] \in Seq(Command) /\ Len(f[n]) = Len(prior) + 1
            /\ \A i \in 1 .. Len(prior) : f[n][i] = prior[i]
            /\ f[n][Len(prior) + 1] = c
        BY <2>1, <2>2, <3>1, <4>1
      <4>4. /\ Len(prior) \in Nat /\ Len(out) \in Nat /\ Len(out) <= Len(prior)
            /\ Len(f[n]) \in Nat
        BY <2>1, <4>3
      <4>5. \A i \in 1 .. Len(out) : f[n][i] = out[i]
        BY <2>1, <4>3, <4>4
      <4>6. ASSUME NEW i \in Len(out) + 1 .. Len(f[n])
            PROVE  f[n][i].at = time /\ f[n][i].type \in types /\ f[n][i].val = vals[f[n][i].type]
        <5>1. i \in Len(out) + 1 .. Len(prior) \/ i = Len(prior) + 1
          BY <4>3, <4>4
        <5>2. CASE i \in Len(out) + 1 .. Len(prior)
          <6>1. i \in 1 .. Len(prior)
            BY <4>4, <5>2
          <6> QED
            BY <2>1, <4>3, <5>2, <6>1
        <5>3. CASE i = Len(prior) + 1
          BY <3>1, <4>2, <4>3, <5>3
        <5> QED
          BY <5>1, <5>2, <5>3
      <4>7. ASSUME NEW k \in 1 .. n, order[k] \in types
            PROVE  \E i \in 1 .. Len(f[n]) : f[n][i].type = order[k] /\ f[n][i].at = time
        <5>1. CASE k \in 1 .. m
          <6>1. PICK i \in 1 .. Len(prior) : prior[i].type = order[k] /\ prior[i].at = time
            BY <2>1, <4>7, <5>1
          <6>2. i \in 1 .. Len(f[n])
            BY <4>3, <4>4
          <6> QED
            BY <4>3, <6>1, <6>2
        <5>2. CASE k = n
          <6>1. Len(prior) + 1 \in 1 .. Len(f[n])
            BY <4>3, <4>4
          <6> QED
            BY <4>2, <4>3, <5>2, <6>1
        <5> QED
          BY <2>1, <5>1, <5>2
      <4>8. Len(out) <= Len(f[n])
        BY <4>3, <4>4
      <4> QED
        BY <4>3, <4>5, <4>6, <4>7, <4>8
    <3>2. CASE order[n] \notin types
      <4>1. f[n] = prior
        BY <2>2, <3>2
      <4>2. \A k \in 1 .. n : order[k] \in types =>
              \E i \in 1 .. Len(f[n]) : f[n][i].type = order[k] /\ f[n][i].at = time
        <5>1. \A k \in 1 .. m : order[k] \in types =>
                \E i \in 1 .. Len(prior) : prior[i].type = order[k] /\ prior[i].at = time
          BY <2>1
        <5> HIDE DEF c, Right
        <5> QED
          BY <2>1, <3>2, <4>1, <5>1
      <4> HIDE DEF c
      <4> QED
        BY <2>1, <4>1, <4>2
    <3> QED
      BY <3>1, <3>2
  <2> HIDE DEF Right
  <2>4. n \in 0 .. N
    BY <1>1
  <2> QED
    BY <2>3, <2>4
<1>6. N \in I
  <2> HIDE DEF I, N
  <2> QED
    BY <1>1, <1>4, <1>5, Climb
<1>7. Right(f[N], N)
  <2> HIDE DEF Right
  <2> QED
    BY <1>6
<1>8. \A t \in types : \E i \in 1 .. Len(f[N]) : f[N][i].type = t /\ f[N][i].at = time
  <2> TAKE t \in types
  <2>1. PICK m \in 1 .. N : order[m] = t
    OBVIOUS
  <2> QED
    BY <1>7, <2>1
<1> QED
  BY <1>3, <1>7, <1>8 DEF Behind

\* Both orders of pushes have every type.
LEMMA OrdersHaveAllTypes ==
  /\ CommandTypes \in Seq(Types)
  /\ \A t \in Types : \E n \in 1 .. Len(CommandTypes) : CommandTypes[n] = t
  /\ PushOrder \in Seq(Types) /\ \A t \in Types : \E n \in 1 .. Len(PushOrder) : PushOrder[n] = t
<1>1. /\ CommandTypes \in Seq(Types)
      /\ \A t \in Types : \E n \in 1 .. Len(CommandTypes) : CommandTypes[n] = t
  BY DEF CommandTypes, Types
<1>2. Types = {"call_veh", "call_ped", "forceoff", "hold", "omit_veh", "omit_ped"}
  BY DEF CommandTypes, Types
<1>3. /\ Len(PushOrder) = 6 /\ PushOrder[1] = "hold" /\ PushOrder[2] = "forceoff"
      /\ PushOrder[3] = "omit_veh" /\ PushOrder[4] = "omit_ped" /\ PushOrder[5] = "call_ped"
      /\ PushOrder[6] = "call_veh"
  BY DEF PushOrder
<1>4. PushOrder \in Seq(Types)
  BY <1>2 DEF PushOrder
<1> QED
  BY <1>1, <1>2, <1>3, <1>4

\* The latest of the ends.
LEMMA AllEndedIsAfter ==
  ASSUME NEW cmds, Clear(cmds)
  PROVE  /\ AllEnded(cmds) \in Nat
         /\ \A i \in DOMAIN cmds : cmds[i].end < AllEnded(cmds)
         /\ cmds = <<>> => AllEnded(cmds) = 0
<1> DEFINE N == Len(cmds)
           Upto(n) == {0} \cup {cmds[i].end + 1 : i \in 1 .. n}
           I == {n \in 0 .. N : \E x \in Upto(n) : x \in Nat /\ \A y \in Upto(n) : x >= y}
<1>1. /\ N \in Nat /\ DOMAIN cmds = 1 .. N
      /\ \A i \in 1 .. N : cmds[i].end \in Nat
  BY CommandFields DEF Clear
<1>2. 0 \in I
  <2>1. Upto(0) = {0}
    OBVIOUS
  <2> HIDE DEF Upto
  <2> QED
    BY <1>1, <2>1
<1>3. ASSUME NEW n \in 1 .. N, n - 1 \in I PROVE n \in I
  <2> DEFINE e == cmds[n].end + 1
  <2>1. PICK x \in Upto(n - 1) : x \in Nat /\ \A y \in Upto(n - 1) : x >= y
    BY <1>3
  <2>2. Upto(n) = Upto(n - 1) \cup {e}
    <3>1. 1 .. n = (1 .. n - 1) \cup {n}
      BY <1>1
    <3> QED
      BY <3>1
  <2>3. e \in Nat
    BY <1>1
  <2>4. n \in 0 .. N
    BY <1>1
  <2> HIDE DEF Upto, e
  <2>5. \E z \in Upto(n) : z \in Nat /\ \A y \in Upto(n) : z >= y
    <3>1. CASE x >= e
      BY <2>1, <2>2, <3>1
    <3>2. CASE ~ (x >= e)
      <4>1. \A y \in Upto(n - 1) : y \in Nat
        BY <1>1 DEF Upto
      <4>2. e >= x /\ e >= e
        BY <2>1, <2>3, <3>2
      <4>3. \A y \in Upto(n - 1) : e >= y
        BY <2>1, <2>3, <4>1, <4>2
      <4> QED
        BY <2>2, <2>3, <4>2, <4>3
    <3> QED
      BY <3>1, <3>2
  <2> QED
    BY <2>4, <2>5
<1>4. N \in I
  <2> HIDE DEF I, N
  <2> QED
    BY <1>1, <1>2, <1>3, Climb
<1>5. AllEnded(cmds) = Max(Upto(N))
  BY <1>1 DEF AllEnded
<1>6. AllEnded(cmds) \in Upto(N) /\ \A y \in Upto(N) : AllEnded(cmds) >= y
  <2> HIDE DEF Upto
  <2> QED
    BY <1>4, <1>5 DEF Max
<1>7. AllEnded(cmds) \in Nat
  BY <1>1, <1>6
<1>8. ASSUME NEW i \in DOMAIN cmds PROVE cmds[i].end < AllEnded(cmds)
  <2>1. AllEnded(cmds) >= cmds[i].end + 1 /\ cmds[i].end \in Nat
    BY <1>1, <1>6
  <2> QED
    BY <1>7, <2>1
<1>9. ASSUME cmds = <<>> PROVE AllEnded(cmds) = 0
  <2>1. Upto(N) = {0}
    BY <1>9
  <2> QED
    BY <1>6, <2>1
<1> QED
  BY <1>7, <1>8, <1>9

\* A list of commands tells what a schedule does before a time: it is in the order of
\* time, each command has what is active then, and there is one wherever a type starts or
\* ends.
Tells(cmds, out, time) ==
  /\ out \in Seq(Command)
  /\ \A i, j \in 1 .. Len(out) : i < j => out[i].at <= out[j].at
  /\ \A i \in 1 .. Len(out) : out[i].at < time /\ out[i].val = Active(cmds, out[i].type, out[i].at)
  /\ \A k \in DOMAIN cmds :
       /\ cmds[k].start < time =>
            \E i \in 1 .. Len(out) : out[i].type = cmds[k].type /\ out[i].at = cmds[k].start
       /\ cmds[k].end < time =>
            \E i \in 1 .. Len(out) : out[i].type = cmds[k].type /\ out[i].at = cmds[k].end

\* What is active is a value for every register.
LEMMA ActiveIsPhases ==
  ASSUME NEW cmds, NEW time
  PROVE  [t \in Types |-> Active(cmds, t, time)] \in [Types -> SUBSET (1..8)]
BY DEF Active

\* A command at an instant for each of the types that start or end then.
LEMMA TellsMore ==
  ASSUME NEW cmds, Clear(cmds), NEW time \in Nat, NEW out, Tells(cmds, out, time),
         NEW order \in Seq(Types), \A t \in Types : \E n \in 1 .. Len(order) : order[n] = t,
         NEW types \in SUBSET Types,
         \A t \in Types : Starting(cmds, t, time) # {} \/ Ending(cmds, t, time) # {} => t \in types
  PROVE  Tells(cmds, Pushed(out, order, types, time, [t \in Types |-> Active(cmds, t, time)]),
               time + 1)
<1> DEFINE vals == [t \in Types |-> Active(cmds, t, time)]
           new == Pushed(out, order, types, time, vals)
<1>1. out \in Seq(Command) /\ Len(out) \in Nat
  BY DEF Tells
<1>2. vals \in [Types -> SUBSET (1..8)] /\ \A t \in Types : vals[t] = Active(cmds, t, time)
  BY ActiveIsPhases
<1> HIDE DEF vals
<1>3. /\ new \in Seq(Command) /\ Len(out) <= Len(new)
      /\ \A i \in 1 .. Len(out) : new[i] = out[i]
      /\ \A i \in Len(out) + 1 .. Len(new) :
           new[i].at = time /\ new[i].type \in types /\ new[i].val = vals[new[i].type]
      /\ \A t \in types : \E i \in 1 .. Len(new) : new[i].type = t /\ new[i].at = time
  <2>1. Behind(new, out, types, time, vals)
    BY <1>1, <1>2, PushedIsRight
  <2> QED
    BY <2>1 DEF Behind
<1> HIDE DEF new
<1>4. Len(new) \in Nat
  BY <1>3
<1>5. \A i \in 1 .. Len(new) : i \in 1 .. Len(out) \/ i \in Len(out) + 1 .. Len(new)
  BY <1>1, <1>4
<1>6. \A i \in 1 .. Len(out) : i \in 1 .. Len(new)
  BY <1>1, <1>3, <1>4
<1>7. \A i \in 1 .. Len(out) : out[i].at \in Nat
  <2>1. \A i \in 1 .. Len(out) : out[i] \in Command
    BY <1>1
  <2> QED
    BY <2>1 DEF Command
<1>8. ASSUME NEW i \in 1 .. Len(new), NEW j \in 1 .. Len(new), i < j
      PROVE  new[i].at <= new[j].at
  <2>1. CASE j \in 1 .. Len(out)
    <3>1. i \in 1 .. Len(out)
      BY <1>1, <1>8, <2>1
    <3> QED
      BY <1>3, <1>8, <2>1, <3>1 DEF Tells
  <2>2. CASE j \in Len(out) + 1 .. Len(new)
    <3>1. new[j].at = time
      BY <1>3, <2>2
    <3>2. CASE i \in 1 .. Len(out)
      BY <1>3, <1>7, <3>1, <3>2 DEF Tells
    <3>3. CASE i \in Len(out) + 1 .. Len(new)
      BY <1>3, <3>1, <3>3
    <3> QED
      BY <1>5, <3>2, <3>3
  <2> QED
    BY <1>5, <2>1, <2>2
<1>9. ASSUME NEW i \in 1 .. Len(new)
      PROVE  new[i].at < time + 1 /\ new[i].val = Active(cmds, new[i].type, new[i].at)
  <2>1. CASE i \in 1 .. Len(out)
    BY <1>3, <1>7, <2>1 DEF Tells
  <2>2. CASE i \in Len(out) + 1 .. Len(new)
    BY <1>2, <1>3, <2>2
  <2> QED
    BY <1>5, <2>1, <2>2
<1>10. ASSUME NEW k \in DOMAIN cmds, NEW at \in {cmds[k].start, cmds[k].end}, at < time + 1
       PROVE  \E i \in 1 .. Len(new) : new[i].type = cmds[k].type /\ new[i].at = at
  <2>1. cmds[k].type \in Types /\ at \in Nat
    BY CommandFields
  <2>2. CASE at < time
    <3>1. PICK i \in 1 .. Len(out) : out[i].type = cmds[k].type /\ out[i].at = at
      BY <2>2 DEF Tells
    <3> QED
      BY <1>3, <1>6, <3>1
  <2>3. CASE at = time
    <3>1. k \in Starting(cmds, cmds[k].type, time) \/ k \in Ending(cmds, cmds[k].type, time)
      BY <2>3 DEF Starting, Ending
    <3>2. cmds[k].type \in types
      BY <2>1, <3>1
    <3> QED
      BY <1>3, <2>3, <3>2
  <2>4. at < time \/ at = time
    BY <1>10, <2>1
  <2> QED
    BY <2>2, <2>3, <2>4
<1>11. Tells(cmds, new, time + 1)
  BY <1>3, <1>8, <1>9, <1>10 DEF Tells
<1> QED
  BY <1>11 DEF new, vals

\* One instant of the converter.
Converted(cmds, acc, time) ==
  /\ acc = [vals |-> [t \in Types |-> Before(cmds, t, time)], out |-> acc.out]
  /\ Tells(cmds, acc.out, time)

\* An instant keeps what the converter has told so far right, and adds its own.
LEMMA OneInstant ==
  ASSUME NEW cmds, Clear(cmds), NEW time \in Nat, NEW acc, Converted(cmds, acc, time)
  PROVE  Converted(cmds, AtTime(cmds, acc, time), time + 1)
<1> DEFINE next == AtTime(cmds, acc, time)
           active == [t \in Types |-> Active(cmds, t, time)]
           starts == {t \in Types : Starting(cmds, t, time) # {}}
           ends == {t \in Types : Ending(cmds, t, time) # {}}
<1>1. /\ \A t \in Types : acc.vals[t] = Before(cmds, t, time)
      /\ Tells(cmds, acc.out, time)
  BY DEF Converted
<1>2. active = [t \in Types |-> Before(cmds, t, time + 1)]
  BY NextInstant
<1>3. \A i \in DOMAIN cmds : cmds[i].type \in Types
  BY CommandFields
<1>4. CASE \E i \in DOMAIN cmds : cmds[i].start = time
  <2>1. [t \in Types |->
           BitwiseXor(BitwiseOr(acc.vals[t], cmds, Starting(cmds, t, time)),
                      cmds, Ending(cmds, t, time))] = active
    BY <1>1, ValueAtTime
  <2>2. next = [vals |-> active, out |-> Pushed(acc.out, PushOrder, starts, time, active)]
    BY <1>4, <2>1 DEF AtTime, AtStart
  <2>3. \A t \in Types : Ending(cmds, t, time) # {} => t \in starts
    <3> SUFFICES ASSUME NEW t \in Types, NEW i \in Ending(cmds, t, time)
                 PROVE  Starting(cmds, t, time) # {}
      OBVIOUS
    <3>1. i \in DOMAIN cmds /\ cmds[i].type = t /\ cmds[i].end = time
      BY DEF Ending
    <3>2. PICK j \in DOMAIN cmds : cmds[j].start = time
      BY <1>4
    <3>3. PICK k \in DOMAIN cmds : cmds[k].type = t /\ cmds[k].start = time
      BY <3>1, <3>2 DEF Clear, EndsAlone
    <3> QED
      BY <3>3 DEF Starting
  <2> HIDE DEF starts, active
  <2>4. starts \in SUBSET Types /\ \A t \in Types : Starting(cmds, t, time) # {} => t \in starts
    BY DEF starts
  <2>5. Tells(cmds, Pushed(acc.out, PushOrder, starts, time, active), time + 1)
    BY <1>1, <2>3, <2>4, OrdersHaveAllTypes, TellsMore DEF active
  <2> QED
    BY <1>2, <2>2, <2>5 DEF Converted
<1>5. CASE /\ ~ \E i \in DOMAIN cmds : cmds[i].start = time
           /\ \E i \in DOMAIN cmds : cmds[i].end = time
  <2>1. \A t \in Types : Starting(cmds, t, time) = {}
    BY <1>5 DEF Starting
  <2>2. [t \in Types |-> BitwiseXor(acc.vals[t], cmds, Ending(cmds, t, time))] = active
    BY <1>1, <2>1, ValueBetweenStarts
  <2>3. next = [vals |-> active, out |-> Pushed(acc.out, CommandTypes, ends, time, active)]
    BY <1>5, <2>2 DEF AtTime, AtEnd
  <2>4. ends \in SUBSET Types /\ \A t \in Types : Ending(cmds, t, time) # {} => t \in ends
    OBVIOUS
  <2> HIDE DEF ends, active
  <2>5. Tells(cmds, Pushed(acc.out, CommandTypes, ends, time, active), time + 1)
    BY <1>1, <2>1, <2>4, OrdersHaveAllTypes, TellsMore DEF active
  <2> QED
    BY <1>2, <2>3, <2>5 DEF Converted
<1>6. CASE /\ ~ \E i \in DOMAIN cmds : cmds[i].start = time
           /\ ~ \E i \in DOMAIN cmds : cmds[i].end = time
  <2>1. next = acc
    BY <1>6 DEF AtTime
  <2>2. \A t \in Types : Starting(cmds, t, time) = {} /\ Ending(cmds, t, time) = {}
    BY <1>6 DEF Starting, Ending
  <2>3. \A t \in Types : Before(cmds, t, time) = Active(cmds, t, time)
    BY <2>2, ValueBetweenStarts
  <2>4. acc = [vals |-> active, out |-> acc.out]
    BY <2>3 DEF Converted
  <2>5. \A i \in 1 .. Len(acc.out) : acc.out[i].at \in Nat
    <3>1. \A i \in 1 .. Len(acc.out) : acc.out[i] \in Command
      BY <1>1 DEF Tells
    <3> QED
      BY <3>1 DEF Command
  <2>6. \A k \in DOMAIN cmds : /\ cmds[k].start < time + 1 => cmds[k].start < time
                               /\ cmds[k].end < time + 1 => cmds[k].end < time
    BY <1>6, CommandFields
  <2>7. Tells(cmds, acc.out, time + 1)
    BY <1>1, <2>5, <2>6 DEF Tells
  <2> HIDE DEF active
  <2> QED
    BY <1>2, <2>1, <2>4, <2>7 DEF Converted
<1> QED
  BY <1>4, <1>5, <1>6

\* The commands of a schedule, all of them.
LEMMA ConverterIsRight ==
  ASSUME NEW cmds, Clear(cmds)
  PROVE  Tells(cmds, SnmpCmds(cmds), AllEnded(cmds))
<1>1. AllEnded(cmds) \in Nat
  BY AllEndedIsAfter
<1>2. PICK f : /\ SnmpCmds(cmds) = f[AllEnded(cmds)].out
               /\ f[0] = [vals |-> AllClear, out |-> <<>>]
               /\ \A n \in 1 .. AllEnded(cmds) : f[n] = AtTime(cmds, f[n - 1], n - 1)
  BY <1>1, ConverterRecursion
<1> DEFINE I == {n \in 0 .. AllEnded(cmds) : Converted(cmds, f[n], n)}
<1>3. 0 \in I
  <2>1. \A i \in DOMAIN cmds : /\ cmds[i].start \in Nat /\ cmds[i].end \in Nat
    BY CommandFields
  <2>2. \A t \in Types : Before(cmds, t, 0) = {}
    BY <2>1 DEF Before
  <2>3. [t \in Types |-> Before(cmds, t, 0)] = AllClear
    BY <2>2 DEF AllClear
  <2>4. Tells(cmds, <<>>, 0)
    BY <2>1 DEF Tells
  <2>5. Converted(cmds, f[0], 0)
    BY <1>2, <2>3, <2>4 DEF Converted
  <2> QED
    BY <1>1, <2>5
<1>4. ASSUME NEW n \in 1 .. AllEnded(cmds), n - 1 \in I PROVE n \in I
  <2>1. n - 1 \in Nat /\ Converted(cmds, f[n - 1], n - 1) /\ (n - 1) + 1 = n
    BY <1>1, <1>4
  <2>2. Converted(cmds, AtTime(cmds, f[n - 1], n - 1), (n - 1) + 1)
    BY <2>1, OneInstant
  <2>3. Converted(cmds, f[n], n)
    BY <1>2, <2>1, <2>2
  <2> QED
    BY <1>1, <2>3
<1>5. AllEnded(cmds) \in I
  <2> HIDE DEF I
  <2> QED
    BY <1>1, <1>3, <1>4, Climb
<1> QED
  BY <1>2, <1>5 DEF Converted

-----------------------------------------------------------------------------
(***************************************************************************)
(* The queue, and what has been executed of it.                            *)
(***************************************************************************)

Ordered(q) == \A i, j \in DOMAIN q : i < j => q[i].at <= q[j].at

\* The last of the first k commands that are of a type has the value val; none of them
\* is of the type, and val is empty.
LastOf(out, k, t, val) ==
  \/ (\A i \in 1 .. k : out[i].type # t) /\ val = {}
  \/ \E m \in 1 .. k : /\ out[m].type = t /\ out[m].val = val
                       /\ \A i \in m + 1 .. k : out[i].type # t

\* The first k commands are gone, the queue holds the others. Every register but those of
\* unset has the value of the last of the k, and none of these was too early.
Done(full, q, regs, time, k, unset) ==
  /\ k \in 0 .. Len(full)
  /\ q = SubSeq(full, k + 1, Len(full))
  /\ \A t \in Types \ unset :
       /\ LastOf(full, k, t, regs[t])
       /\ \A i \in 1 .. k : full[i].type = t => full[i].at <= time

\* The elements of a queue.
LEMMA CommandsOf ==
  ASSUME NEW q \in Seq(Command)
  PROVE  /\ Len(q) \in Nat /\ DOMAIN q = 1 .. Len(q)
         /\ \A i \in 1 .. Len(q) : /\ q[i] \in Command /\ q[i].at \in Nat
                                   /\ q[i].type \in Types /\ q[i].val \in SUBSET (1..8)
<1>1. Len(q) \in Nat /\ DOMAIN q = 1 .. Len(q) /\ \A i \in 1 .. Len(q) : q[i] \in Command
  OBVIOUS
<1> QED
  BY <1>1 DEF Command

\* Queues with the same elements are equal.
LEMMA SameCommands ==
  ASSUME NEW a \in Seq(Command), NEW b \in Seq(Command), Len(a) = Len(b),
         \A i \in 1 .. Len(a) : a[i] = b[i]
  PROVE  a = b
<1>1. a = [i \in 1 .. Len(a) |-> a[i]] /\ b = [i \in 1 .. Len(b) |-> b[i]]
  OBVIOUS
<1>2. [i \in 1 .. Len(a) |-> a[i]] = [i \in 1 .. Len(b) |-> b[i]]
  BY Zenon
<1> QED
  BY <1>1, <1>2

\* The queue without its first commands.
LEMMA SuffixOf ==
  ASSUME NEW q \in Seq(Command), NEW a \in 0 .. Len(q)
  PROVE  /\ SubSeq(q, a + 1, Len(q)) \in Seq(Command)
         /\ Len(SubSeq(q, a + 1, Len(q))) = Len(q) - a
         /\ \A i \in 1 .. Len(SubSeq(q, a + 1, Len(q))) : SubSeq(q, a + 1, Len(q))[i] = q[a + i]
<1>1. Len(q) \in Nat /\ a \in Nat /\ a + 1 \in 1 .. Len(q) + 1
  OBVIOUS
<1>2. SubSeq(q, a + 1, Len(q)) \in Seq(Command)
  BY <1>1
<1>3. Len(SubSeq(q, a + 1, Len(q))) = Len(q) - a
  BY <1>1
<1> QED
  BY <1>1, <1>2, <1>3

\* A queue of which nothing was popped: every register that is not clear is unset.
LEMMA DoneStart ==
  ASSUME NEW full \in Seq(Command), NEW time, NEW regs, NEW unset,
         \A t \in Types \ unset : regs[t] = {}
  PROVE  Done(full, full, regs, time, 0, unset)
<1>1. \A t \in Types \ unset : LastOf(full, 0, t, regs[t])
  BY DEF LastOf
<1>2. full = SubSeq(full, 1, Len(full)) /\ Len(full) \in Nat
  OBVIOUS
<1> QED
  BY <1>1, <1>2 DEF Done

\* Time goes on, and registers are no longer counted on.
LEMMA DoneLater ==
  ASSUME NEW full \in Seq(Command), NEW q, NEW regs, NEW time \in Nat,
         NEW later \in {time, time + 1}, NEW k, NEW unset, NEW more, unset \subseteq more,
         Done(full, q, regs, time, k, unset)
  PROVE  Done(full, q, regs, later, k, more)
<1>1. Len(full) \in Nat /\ \A i \in 1 .. Len(full) : full[i].at \in Nat
  BY CommandsOf
<1>2. k \in 0 .. Len(full)
  BY DEF Done
<1>3. ASSUME NEW t \in Types \ more, NEW i \in 1 .. k, full[i].type = t PROVE full[i].at <= later
  <2>1. full[i].at <= time /\ full[i].at \in Nat
    BY <1>1, <1>2, <1>3 DEF Done
  <2> QED
    BY <2>1
<1> QED
  BY <1>3 DEF Done

\* A register that is not counted on may be set to anything.
LEMMA DoneOther ==
  ASSUME NEW full, NEW q, NEW time, NEW k, NEW unset, Done(full, q, tsc, time, k, unset),
         NEW regs, \A t \in Types \ unset : regs[t] = tsc[t]
  PROVE  Done(full, q, regs, time, k, unset)
BY DEF Done

\* The queue without its first command: the register of this command counts if it was set
\* to its value, and not too early.
LEMMA DonePop ==
  ASSUME NEW full \in Seq(Command), Ordered(full), NEW q \in Seq(Command), q # <<>>,
         NEW time \in Nat, NEW k, NEW regs, NEW unset, NEW left,
         Done(full, q, regs, time, k, unset),
         unset \ {Head(q).type} \subseteq left,
         \/ Head(q).type \in left
         \/ regs[Head(q).type] = Head(q).val /\ Head(q).at <= time
  PROVE  Done(full, Tail(q), regs, time, k + 1, left)
<1>1. k \in 0 .. Len(full) /\ Len(full) \in Nat /\ k \in Nat
      /\ \A i \in 1 .. Len(full) : full[i].at \in Nat
  BY CommandsOf DEF Done
<1>2. Len(q) = Len(full) - k /\ \A i \in 1 .. Len(q) : q[i] = full[k + i]
  BY <1>1 DEF Done
<1>3. Len(q) \in Nat /\ 1 \in 1 .. Len(q) /\ Head(q) = q[1]
  OBVIOUS
<1>4. k + 1 \in 0 .. Len(full) /\ k + 1 \in 1 .. Len(full) /\ Head(q) = full[k + 1]
  BY <1>1, <1>2, <1>3
<1>5. Tail(q) = SubSeq(full, (k + 1) + 1, Len(full))
  <2> DEFINE right == SubSeq(full, (k + 1) + 1, Len(full))
  <2>1. Tail(q) \in Seq(Command) /\ Len(Tail(q)) = Len(q) - 1
        /\ \A i \in 1 .. Len(Tail(q)) : Tail(q)[i] = q[i + 1]
    OBVIOUS
  <2>2. right \in Seq(Command) /\ Len(right) = Len(full) - (k + 1)
        /\ \A i \in 1 .. Len(right) : right[i] = full[(k + 1) + i]
    BY <1>4, SuffixOf
  <2> HIDE DEF right
  <2>3. Len(Tail(q)) = Len(right) /\ Len(right) \in Nat
    BY <1>1, <1>2, <1>3, <1>4, <2>1, <2>2
  <2>4. ASSUME NEW i \in 1 .. Len(Tail(q)) PROVE Tail(q)[i] = right[i]
    <3>1. i + 1 \in 1 .. Len(q) /\ k + (i + 1) = (k + 1) + i
      BY <1>1, <1>3, <2>1, <2>3
    <3> QED
      BY <1>2, <2>1, <2>2, <2>3, <3>1
  <2>5. Tail(q) = right
    BY <2>1, <2>2, <2>3, <2>4, SameCommands
  <2> QED
    BY <2>5 DEF right
<1>6. ASSUME NEW i \in 1 .. k + 1 PROVE i \in 1 .. k \/ i = k + 1
  BY <1>1
<1>7. ASSUME NEW t \in Types \ left
      PROVE  /\ LastOf(full, k + 1, t, regs[t])
             /\ \A i \in 1 .. k + 1 : full[i].type = t => full[i].at <= time
  <2>1. CASE t = Head(q).type
    <3>1. full[k + 1].type = t /\ full[k + 1].val = regs[t] /\ full[k + 1].at <= time
      BY <1>4, <1>7, <2>1
    <3>2. k + 1 \in 1 .. k + 1 /\ \A i \in (k + 1) + 1 .. k + 1 : full[i].type # t
      BY <1>1
    <3>3. LastOf(full, k + 1, t, regs[t])
      BY <3>1, <3>2 DEF LastOf
    <3>4. ASSUME NEW i \in 1 .. k + 1 PROVE full[i].at <= time
      <4>1. i \in 1 .. Len(full) /\ (i = k + 1 \/ i < k + 1)
        BY <1>1, <1>4
      <4>2. full[i].at <= full[k + 1].at
        <5>1. CASE i = k + 1
          BY <1>1, <4>1, <5>1
        <5>2. CASE i < k + 1
          BY <1>4, <4>1, <5>2, CommandsOf DEF Ordered
        <5> QED
          BY <4>1, <5>1, <5>2
      <4>3. full[i].at \in Nat /\ full[k + 1].at \in Nat
        BY <1>1, <1>4, <4>1
      <4> QED
        BY <3>1, <4>2, <4>3
    <3> QED
      BY <3>3, <3>4
  <2>2. CASE t # Head(q).type
    <3>1. t \in Types \ unset
      BY <1>7, <2>2
    <3>2. LastOf(full, k, t, regs[t]) /\ \A i \in 1 .. k : full[i].type = t => full[i].at <= time
      BY <3>1 DEF Done
    <3>3. full[k + 1].type # t
      BY <1>4, <2>2
    <3>4. \A i \in 1 .. k + 1 : full[i].type = t => full[i].at <= time
      BY <1>6, <3>2, <3>3
    <3>5. CASE (\A i \in 1 .. k : full[i].type # t) /\ regs[t] = {}
      <4>1. \A i \in 1 .. k + 1 : full[i].type # t
        BY <1>6, <3>3, <3>5
      <4> QED
        BY <3>4, <3>5, <4>1 DEF LastOf
    <3>6. ASSUME NEW m \in 1 .. k, full[m].type = t, full[m].val = regs[t],
                 \A i \in m + 1 .. k : full[i].type # t
          PROVE  LastOf(full, k + 1, t, regs[t])
      <4>1. m \in 1 .. k + 1
        BY <1>1
      <4>2. ASSUME NEW i \in m + 1 .. k + 1 PROVE full[i].type # t
        <5>1. i = k + 1 \/ i \in m + 1 .. k
          BY <1>1
        <5> QED
          BY <3>3, <3>6, <5>1
      <4> QED
        BY <3>6, <4>1, <4>2 DEF LastOf
    <3> QED
      BY <3>2, <3>4, <3>5, <3>6 DEF LastOf
  <2> QED
    BY <2>1, <2>2
<1> QED
  BY <1>4, <1>5, <1>7 DEF Done

\* What has been executed at a time, and nothing is due, is what is active.
LEMMA DoneIsActive ==
  ASSUME NEW cmds, Clear(cmds), NEW q, NEW regs, NEW time \in Nat, NEW k,
         NEW unset, Done(SnmpCmds(cmds), q, regs, time, k, unset),
         q # <<>> => Head(q).at > time, NEW t \in Types, t \notin unset
  PROVE  regs[t] = Active(cmds, t, time)
<1> DEFINE full == SnmpCmds(cmds)
<1>1. Tells(cmds, full, AllEnded(cmds)) /\ AllEnded(cmds) \in Nat
      /\ \A i \in DOMAIN cmds : cmds[i].end < AllEnded(cmds)
  BY ConverterIsRight, AllEndedIsAfter
<1>2. full \in Seq(Command) /\ Ordered(full)
  BY <1>1, CommandsOf DEF Tells, Ordered
<1>3. /\ k \in 0 .. Len(full) /\ q = SubSeq(full, k + 1, Len(full))
      /\ \A i \in 1 .. k : full[i].type = t => full[i].at <= time
      /\ LastOf(full, k, t, regs[t])
  BY DEF Done
<1>4. \A i \in 1 .. Len(full) : full[i].val = Active(cmds, full[i].type, full[i].at)
  BY <1>1 DEF Tells
<1>5. \A c \in DOMAIN cmds :
        /\ cmds[c].start < AllEnded(cmds) =>
             \E i \in 1 .. Len(full) : full[i].type = cmds[c].type /\ full[i].at = cmds[c].start
        /\ cmds[c].end < AllEnded(cmds) =>
             \E i \in 1 .. Len(full) : full[i].type = cmds[c].type /\ full[i].at = cmds[c].end
  BY <1>1 DEF Tells
<1> HIDE DEF full
<1>6. /\ Len(full) \in Nat /\ k \in Nat
      /\ \A i \in 1 .. Len(full) : full[i].at \in Nat
      /\ \A i, j \in 1 .. Len(full) : i <= j => full[i].at <= full[j].at
  <2>1. Len(full) \in Nat /\ DOMAIN full = 1 .. Len(full)
        /\ \A i \in 1 .. Len(full) : full[i].at \in Nat
    BY <1>2, CommandsOf
  <2>2. k \in Nat
    BY <1>3, <2>1
  <2>3. ASSUME NEW i \in 1 .. Len(full), NEW j \in 1 .. Len(full), i <= j
        PROVE  full[i].at <= full[j].at
    <3>1. i = j \/ i < j
      BY <2>3
    <3>2. CASE i = j
      BY <2>1, <3>2
    <3>3. CASE i < j
      BY <1>2, <2>1, <3>3 DEF Ordered
    <3> QED
      BY <3>1, <3>2, <3>3
  <2> QED
    BY <2>1, <2>2, <2>3
<1>7. ASSUME NEW i \in 1 .. Len(full), full[i].at <= time PROVE i \in 1 .. k
  <2> SUFFICES ASSUME ~ (i <= k) PROVE FALSE
    BY <1>6
  <2>1. k + 1 \in 1 .. Len(full) /\ k + 1 <= i
    BY <1>6
  <2>2. q # <<>> /\ Head(q) = full[k + 1]
    <3>1. q \in Seq(Command) /\ Len(q) = Len(full) - k /\ \A j \in 1 .. Len(q) : q[j] = full[k + j]
      BY <1>2, <1>3, <1>6
    <3>2. Len(q) \in Nat /\ 1 \in 1 .. Len(q)
      BY <1>6, <2>1, <3>1
    <3>3. q[1] = full[k + 1]
      BY <3>1, <3>2
    <3> QED
      BY <3>1, <3>2, <3>3
  <2>3. full[k + 1].at > time
    BY <2>2
  <2>4. full[k + 1].at <= full[i].at
    BY <1>6, <2>1
  <2> QED
    BY <1>6, <1>7, <2>1, <2>3, <2>4
<1>8. \A c \in DOMAIN cmds : /\ cmds[c].start \in Nat /\ cmds[c].end \in Nat
                             /\ cmds[c].start <= cmds[c].end
  BY CommandFields
<1>9. ASSUME NEW c \in DOMAIN cmds, cmds[c].type = t,
             NEW at \in {cmds[c].start, cmds[c].end}, at <= time
      PROVE  \E i \in 1 .. k : full[i].type = t /\ full[i].at = at
  <2>1. at < AllEnded(cmds)
    BY <1>1, <1>8
  <2>2. PICK i \in 1 .. Len(full) : full[i].type = t /\ full[i].at = at
    BY <1>5, <1>9, <2>1
  <2>3. i \in 1 .. k
    BY <1>7, <1>9, <2>2
  <2> QED
    BY <2>2, <2>3
<1>10. CASE (\A i \in 1 .. k : full[i].type # t) /\ regs[t] = {}
  <2>1. \A c \in DOMAIN cmds : cmds[c].type = t => ~ (cmds[c].start <= time)
    BY <1>9, <1>10
  <2>2. Active(cmds, t, time) = {}
    BY <2>1 DEF Active
  <2> QED
    BY <1>10, <2>2
<1>11. ASSUME NEW m \in 1 .. k, full[m].type = t, full[m].val = regs[t],
              \A i \in m + 1 .. k : full[i].type # t
       PROVE  regs[t] = Active(cmds, t, time)
  <2> DEFINE at == full[m].at
  <2>1. m \in 1 .. Len(full) /\ at \in Nat /\ at <= time
    BY <1>3, <1>6, <1>11
  <2>2. regs[t] = Active(cmds, t, at)
    BY <1>4, <1>11, <2>1
  <2>3. ASSUME NEW i \in 1 .. k, full[i].type = t PROVE full[i].at <= at
    <3>1. i \in 1 .. Len(full) /\ i <= m
      BY <1>6, <1>3, <1>11, <2>3
    <3> QED
      BY <1>6, <2>1, <3>1
  <2> HIDE DEF at
  <2>4. ASSUME NEW c \in DOMAIN cmds, cmds[c].type = t
        PROVE  cmds[c].start <= at /\ at < cmds[c].end
                 <=> cmds[c].start <= time /\ time < cmds[c].end
    <3>1. cmds[c].start <= time => cmds[c].start <= at
      <4> SUFFICES ASSUME cmds[c].start <= time PROVE cmds[c].start <= at
        OBVIOUS
      <4>1. PICK i \in 1 .. k : full[i].type = t /\ full[i].at = cmds[c].start
        BY <1>9, <2>4
      <4> QED
        BY <2>3, <4>1
    <3>2. cmds[c].end <= time => cmds[c].end <= at
      <4> SUFFICES ASSUME cmds[c].end <= time PROVE cmds[c].end <= at
        OBVIOUS
      <4>1. PICK i \in 1 .. k : full[i].type = t /\ full[i].at = cmds[c].end
        BY <1>9, <2>4
      <4> QED
        BY <2>3, <4>1
    <3> QED
      BY <1>8, <2>1, <3>1, <3>2
  <2> QED
    BY <2>2, <2>4 DEF Active
<1> QED
  BY <1>3, <1>10, <1>11 DEF LastOf

-----------------------------------------------------------------------------
(***************************************************************************)
(* The thread.                                                             *)
(***************************************************************************)

\* The registers that need not have what the commands popped have set: the old ones, and
\* the one that has been set for the front, which is about to be popped.
Unset == IF controlThread = "pop" /\ fresh THEN old \cup {executing.type} ELSE old

\* The queue is that of the schedule held: whole before the thread begins with it, and
\* then without what has been popped.
QueueIsWhole == controlThread = "idle" => queue = <<>> \/ queue = SnmpCmds(commands)

SleepsBeforeFront ==
  controlThread = "sleep" =>
    /\ wake = command.at
    /\ queue = <<>> \/ Head(queue) = command \/ queue = SnmpCmds(commands)

\* What is executed is due, and it is the front when it was read from this queue.
ExecutesFront ==
  /\ controlThread \in {"batch", "set", "pop"} => command.at <= clock
  /\ controlThread \in {"set", "pop"} /\ fresh =>
       queue # <<>> /\ Head(queue) = executing /\ executing.at = command.at
  /\ controlThread = "pop" /\ fresh => tsc[executing.type] = executing.val

GoesOn == \E k \in Nat : Done(SnmpCmds(commands), queue, tsc, clock, k, Unset)

ScheduleInv ==
  /\ ScheduleTypeOK /\ Clear(commands) /\ QueueInOrder /\ (isClear => commands = <<>>)
  /\ QueueIsWhole /\ SleepsBeforeFront /\ ExecutesFront /\ GoesOn

\* A clear schedule makes a queue in the order of time.
LEMMA ScheduleIsConverted ==
  ASSUME NEW cmds, Clear(cmds)
  PROVE  SnmpCmds(cmds) \in Seq(Command) /\ Ordered(SnmpCmds(cmds))
BY ConverterIsRight, CommandsOf DEF Tells, Ordered

\* A schedule without commands is clear, its queue is empty.
LEMMA NoScheduleIsClear == Clear(<<>>) /\ SnmpCmds(<<>>) = <<>>
<1>1. Clear(<<>>)
  BY DEF Clear, Apart, EndsAlone
<1>2. Tells(<<>>, SnmpCmds(<<>>), 0)
  BY <1>1, ConverterIsRight, AllEndedIsAfter
<1> DEFINE full == SnmpCmds(<<>>)
<1>3. full \in Seq(Command) /\ \A i \in 1 .. Len(full) : full[i].at < 0
  BY <1>2 DEF Tells
<1> HIDE DEF full
<1>4. Len(full) \in Nat /\ \A i \in 1 .. Len(full) : full[i].at \in Nat
  BY <1>3, CommandsOf
<1>5. Len(full) = 0
  <2> SUFFICES ASSUME Len(full) # 0 PROVE FALSE
    OBVIOUS
  <2>1. 1 \in 1 .. Len(full)
    BY <1>4
  <2> QED
    BY <1>3, <1>4, <2>1
<1>6. full = <<>>
  BY <1>3, <1>5
<1> QED
  BY <1>1, <1>6 DEF full

\* While nothing is due, the registers are as scheduled; none is set after a clear.
LEMMA ScheduleInvObeys == ScheduleInv => ScheduleIsObeyed
<1> SUFFICES ASSUME ScheduleInv PROVE AsScheduled /\ ClearStays
  BY DEF ScheduleInv, ScheduleIsObeyed
<1>1. PICK k \in Nat : Done(SnmpCmds(commands), queue, tsc, clock, k, Unset)
  BY DEF ScheduleInv, GoesOn
<1>2. clock \in Nat /\ wake \in Nat /\ old \subseteq Types
  BY DEF ScheduleInv, ScheduleTypeOK
<1>3. ASSUME Following, NEW t \in Types \ old PROVE tsc[t] = Active(commands, t, clock)
  <2>1. Unset = old
    BY <1>3 DEF Following, Unset
  <2>2. queue # <<>> => Head(queue).at > clock
    BY <1>2, <1>3 DEF ScheduleInv, SleepsBeforeFront, Following
  <2>3. Clear(commands) /\ Done(SnmpCmds(commands), queue, tsc, clock, k, old)
    BY <1>1, <2>1 DEF ScheduleInv
  <2> QED
    BY <1>2, <2>2, <2>3, DoneIsActive
<1>4. ASSUME isClear PROVE queue = <<>> /\ \A t \in Types \ old : tsc[t] = {}
  <2>1. SnmpCmds(commands) = <<>>
    BY <1>4, NoScheduleIsClear DEF ScheduleInv
  <2>2. Len(SnmpCmds(commands)) = 0
    BY <2>1
  <2>3. k = 0 /\ queue = SubSeq(SnmpCmds(commands), 1, 0)
    BY <1>1, <2>2 DEF Done
  <2>4. queue = <<>>
    BY <2>1, <2>3
  <2>5. Unset = old
    BY <2>4 DEF Unset, ScheduleInv, ExecutesFront
  <2>6. ASSUME NEW t \in Types \ old PROVE tsc[t] = {}
    <3>1. LastOf(SnmpCmds(commands), k, t, tsc[t])
      BY <1>1, <2>5, <2>6 DEF Done
    <3>2. ~ \E m \in 1 .. k : TRUE
      BY <2>3
    <3> QED
      BY <3>1, <3>2 DEF LastOf
  <2> QED
    BY <2>4, <2>6
<1> QED
  BY <1>3, <1>4 DEF AsScheduled, ClearStays

\* The rest of a queue.
LEMMA RestIsOrdered ==
  ASSUME NEW q \in Seq(Command), Ordered(q), q # <<>>
  PROVE  Tail(q) \in Seq(Command) /\ Ordered(Tail(q)) /\ Head(q) \in Command
<1> DEFINE r == Tail(q)
<1>1. Len(q) \in Nat /\ Len(q) # 0 /\ DOMAIN q = 1 .. Len(q) /\ Head(q) = q[1]
  BY CommandsOf
<1>2. Head(q) \in Command
  BY <1>1, CommandsOf
<1>3. r \in Seq(Command) /\ Len(r) = Len(q) - 1 /\ \A i \in 1 .. Len(r) : r[i] = q[i + 1]
  BY <1>1
<1> HIDE DEF r
<1>4. DOMAIN r = 1 .. Len(r) /\ Len(r) \in Nat
  BY <1>3
<1>5. ASSUME NEW i \in DOMAIN r, NEW j \in DOMAIN r, i < j PROVE r[i].at <= r[j].at
  <2>1. i + 1 \in DOMAIN q /\ j + 1 \in DOMAIN q /\ i + 1 < j + 1
    BY <1>1, <1>3, <1>4, <1>5
  <2> QED
    BY <1>3, <1>4, <2>1 DEF Ordered
<1>6. r \in Seq(Command) /\ Ordered(r)
  BY <1>3, <1>5 DEF Ordered
<1> QED
  BY <1>2, <1>6 DEF r

\* What the thread and the controller begin with.
LEMMA NothingIsSet ==
  /\ NoCommand \in Command /\ AllClear \in [Types -> SUBSET (1..8)]
  /\ <<>> \in Seq(Command) /\ <<>> \in Seq(ScheduleCommand)
<1>1. "hold" \in Types
  BY DEF Types, CommandTypes
<1>2. NoCommand \in Command
  BY <1>1 DEF NoCommand, Command
<1> QED
  BY <1>2 DEF AllClear

\* The invariant holds at the start.
LEMMA ScheduleInitInv == ScheduleInit => ScheduleInv
<1> SUFFICES ASSUME ScheduleInit PROVE ScheduleInv
  OBVIOUS
<1> USE DEF ScheduleInit
<1>1. ScheduleTypeOK
  <2>1. isClear \in BOOLEAN /\ fresh \in BOOLEAN /\ old \subseteq Types
    OBVIOUS
  <2>2. /\ commands \in Seq(ScheduleCommand) /\ queue \in Seq(Command) /\ command \in Command
        /\ executing \in Command /\ tsc \in [Types -> SUBSET (1..8)]
    BY NothingIsSet
  <2>3. controlThread \in ControlSteps /\ {wake, clock, received, failures} \subseteq Nat
    BY DEF ControlSteps
  <2> QED
    BY <2>1, <2>2, <2>3 DEF ScheduleTypeOK
<1>2. Clear(commands) /\ SnmpCmds(commands) = <<>>
  BY NoScheduleIsClear
<1>3. /\ QueueInOrder /\ QueueIsWhole /\ SleepsBeforeFront /\ ExecutesFront
      /\ isClear => commands = <<>>
  BY DEF QueueInOrder, QueueIsWhole, SleepsBeforeFront, ExecutesFront
<1>4. Done(SnmpCmds(commands), queue, tsc, clock, 0, Unset)
  BY <1>2, NothingIsSet, DoneStart DEF AllClear
<1> QED
  BY <1>1, <1>2, <1>3, <1>4 DEF ScheduleInv, GoesOn

\* Steps that leave the schedule and its queue alone, and every register that counts.
LEMMA GoesOnStep ==
  ASSUME GoesOn, Clear(commands), UNCHANGED <<commands, queue>>, clock \in Nat,
         clock' \in {clock, clock + 1}, Unset \subseteq Unset',
         \A t \in Types \ Unset' : tsc'[t] = tsc[t]
  PROVE  GoesOn'
<1>1. PICK k \in Nat : Done(SnmpCmds(commands), queue, tsc, clock, k, Unset)
  BY DEF GoesOn
<1>2. SnmpCmds(commands) \in Seq(Command)
  BY ScheduleIsConverted
<1> DEFINE more == Unset'
           later == clock'
           regs == tsc'
<1>3. Done(SnmpCmds(commands), queue, tsc, later, k, more)
  <2>1. Unset \subseteq more /\ later \in {clock, clock + 1}
    OBVIOUS
  <2> HIDE DEF more, later
  <2> QED
    BY <1>1, <1>2, <2>1, DoneLater
<1>4. \A t \in Types \ more : regs[t] = tsc[t]
  OBVIOUS
<1> HIDE DEF more, later, regs
<1>5. Done(SnmpCmds(commands), queue, regs, later, k, more)
  BY <1>3, <1>4, DoneOther
<1> QED
  BY <1>5 DEF GoesOn, more, later, regs

\* The front goes: its register is unset, or it has been executed.
LEMMA GoesOnPop ==
  ASSUME GoesOn, Clear(commands), UNCHANGED <<commands, tsc, clock>>, clock \in Nat,
         queue \in Seq(Command), queue # <<>>, queue' = Tail(queue),
         Unset \ {Head(queue).type} \subseteq Unset',
         \/ Head(queue).type \in Unset'
         \/ tsc[Head(queue).type] = Head(queue).val /\ Head(queue).at <= clock
  PROVE  GoesOn'
<1>1. PICK k \in Nat : Done(SnmpCmds(commands), queue, tsc, clock, k, Unset)
  BY DEF GoesOn
<1>2. SnmpCmds(commands) \in Seq(Command) /\ Ordered(SnmpCmds(commands))
  BY ScheduleIsConverted
<1> DEFINE left == Unset'
<1>3. /\ Unset \ {Head(queue).type} \subseteq left
      /\ \/ Head(queue).type \in left
         \/ tsc[Head(queue).type] = Head(queue).val /\ Head(queue).at <= clock
  OBVIOUS
<1> HIDE DEF left
<1>4. Done(SnmpCmds(commands), Tail(queue), tsc, clock, k + 1, left)
  BY <1>1, <1>2, <1>3, DonePop
<1>5. k + 1 \in Nat
  OBVIOUS
<1> QED
  BY <1>4, <1>5 DEF GoesOn, left

\* A queue from which nothing was popped.
LEMMA GoesOnStart ==
  ASSUME Clear(commands'), queue' = SnmpCmds(commands'), \A t \in Types \ Unset' : tsc'[t] = {}
  PROVE  GoesOn'
<1> DEFINE full == SnmpCmds(commands')
           unset == Unset'
           regs == tsc'
           time == clock'
<1>1. full \in Seq(Command)
  BY ScheduleIsConverted
<1>2. \A t \in Types \ unset : regs[t] = {}
  OBVIOUS
<1> HIDE DEF full, unset, regs, time
<1>3. Done(full, full, regs, time, 0, unset)
  BY <1>1, <1>2, DoneStart
<1> QED
  BY <1>3 DEF GoesOn, full, unset, regs, time

\* The registers after a round of clears.
LEMMA ClearAllIsRight ==
  ASSUME ScheduleTypeOK, NEW kept \in SUBSET NotClear, ClearAll(kept)
  PROVE  /\ tsc' \in [Types -> SUBSET (1..8)] /\ failures' \in Nat
         /\ old' = kept /\ old' \subseteq Types
         /\ \A t \in Types \ old' : tsc'[t] = {}
<1>1. tsc \in [Types -> SUBSET (1..8)] /\ failures \in Nat
  BY DEF ScheduleTypeOK
<1>2. failures' = failures \/ failures' = failures + 1
  BY DEF ClearAll
<1> QED
  BY <1>1, <1>2 DEF ClearAll, NotClear

\* A message, well formed or not.
LEMMA MessageStep ==
  ASSUME ObeyableAssumption, ScheduleInv,
         \/ \E msg \in Schedules : ConsumeCommands(msg)
         \/ \E kept \in SUBSET NotClear : ConsumeClear(kept)
         \/ ConsumeMalformed
  PROVE  ScheduleInv'
<1>1. /\ ScheduleTypeOK /\ Clear(commands) /\ QueueInOrder /\ (isClear => commands = <<>>)
      /\ QueueIsWhole /\ SleepsBeforeFront /\ ExecutesFront /\ GoesOn
  BY DEF ScheduleInv
<1>2. /\ clock \in Nat /\ received \in Nat /\ failures \in Nat
      /\ tsc \in [Types -> SUBSET (1..8)] /\ command \in Command /\ executing \in Command
      /\ controlThread \in ControlSteps /\ "undefined" \in ControlSteps
  BY <1>1 DEF ScheduleTypeOK, ControlSteps
<1>3. ASSUME NEW msg \in Seq(ScheduleCommand), Clear(msg),
             commands' = msg, isClear' \in BOOLEAN, isClear' => msg = <<>>,
             Swap(SnmpCmds(msg)), Receive, failures' \in Nat, old' \subseteq Types,
             tsc' \in [Types -> SUBSET (1..8)], \A t \in Types \ old' : tsc'[t] = {}
      PROVE  ScheduleInv'
  <2>1. /\ queue' = SnmpCmds(msg) /\ fresh' = FALSE /\ received' = received + 1
        /\ controlThread' = controlThread \/ controlThread' = "undefined"
        /\ UNCHANGED <<command, executing, wake, clock>>
    BY <1>3 DEF Swap, Receive
  <2>2. queue' \in Seq(Command) /\ Ordered(queue')
    BY <1>3, <2>1, ScheduleIsConverted
  <2>3. ScheduleTypeOK'
    <3>1. isClear' \in BOOLEAN /\ fresh' \in BOOLEAN /\ old' \subseteq Types
      BY <1>3, <2>1
    <3>2. commands' \in Seq(ScheduleCommand) /\ controlThread' \in ControlSteps
      BY <1>2, <1>3, <2>1
    <3>3. {wake', clock', received', failures'} \subseteq Nat
      BY <1>1, <1>2, <1>3, <2>1 DEF ScheduleTypeOK
    <3> QED
      BY <1>2, <1>3, <2>1, <2>2, <3>1, <3>2, <3>3 DEF ScheduleTypeOK
  <2>4. QueueInOrder' /\ Clear(commands') /\ (isClear' => commands' = <<>>)
    BY <1>3, <2>2 DEF QueueInOrder, Ordered
  <2>5. QueueIsWhole' /\ SleepsBeforeFront' /\ ExecutesFront'
    BY <1>1, <1>3, <2>1 DEF QueueIsWhole, SleepsBeforeFront, ExecutesFront
  <2>6. Unset' = old'
    BY <2>1 DEF Unset
  <2>7. GoesOn'
    BY <1>3, <2>1, <2>6, GoesOnStart
  <2> QED
    BY <2>3, <2>4, <2>5, <2>7 DEF ScheduleInv
<1>4. ASSUME NEW msg \in Schedules, ConsumeCommands(msg) PROVE ScheduleInv'
  <2>1. /\ commands' = msg /\ isClear' = FALSE /\ Swap(SnmpCmds(msg)) /\ Receive
        /\ old' = NotClear /\ UNCHANGED <<tsc, failures>>
        /\ \A i \in DOMAIN msg : msg[i].start <= msg[i].end
    BY <1>4 DEF ConsumeCommands
  <2>2. msg \in Seq(ScheduleCommand) /\ Clear(msg)
    BY <2>1 DEF ObeyableAssumption, SchedulesAssumption, Clear
  <2>3. old' \subseteq Types /\ \A t \in Types \ old' : tsc'[t] = {}
    BY <2>1 DEF NotClear
  <2> QED
    BY <1>2, <1>3, <2>1, <2>2, <2>3
<1>5. ASSUME NEW kept \in SUBSET NotClear, ConsumeClear(kept) PROVE ScheduleInv'
  <2>1. commands' = <<>> /\ isClear' = TRUE /\ ClearAll(kept) /\ Swap(<<>>) /\ Receive
    BY <1>5 DEF ConsumeClear
  <2>2. Clear(<<>>) /\ Swap(SnmpCmds(<<>>)) /\ <<>> \in Seq(ScheduleCommand)
    BY <2>1, NoScheduleIsClear, NothingIsSet
  <2>3. /\ tsc' \in [Types -> SUBSET (1..8)] /\ failures' \in Nat /\ old' \subseteq Types
        /\ \A t \in Types \ old' : tsc'[t] = {}
    BY <1>1, <2>1, ClearAllIsRight
  <2> QED
    BY <1>3, <2>1, <2>2, <2>3
<1>6. CASE ConsumeMalformed
  <2>1. /\ received' = received + 1
        /\ UNCHANGED <<commands, isClear, queue, controlThread, tsc, failures, fresh, old,
                       command, executing, wake, clock>>
    BY <1>6 DEF ConsumeMalformed, Receive
  <2>2. ScheduleTypeOK'
    BY <1>1, <1>2, <2>1 DEF ScheduleTypeOK
  <2>3. GoesOn'
    BY <1>1, <1>2, <2>1, GoesOnStep DEF Unset
  <2>4. /\ Clear(commands') /\ QueueInOrder' /\ QueueIsWhole' /\ SleepsBeforeFront'
        /\ ExecutesFront' /\ (isClear' => commands' = <<>>)
    BY <1>1, <2>1 DEF QueueInOrder, QueueIsWhole, SleepsBeforeFront, ExecutesFront
  <2> QED
    BY <2>2, <2>3, <2>4 DEF ScheduleInv
<1> QED
  BY <1>4, <1>5, <1>6

\* A step of the control thread, or of the clock.
LEMMA ThreadStep ==
  ASSUME ObeyableAssumption, ScheduleInv, ControlThread \/ Tick
  PROVE  ScheduleInv'
<1>1. /\ ScheduleTypeOK /\ Clear(commands) /\ QueueInOrder /\ (isClear => commands = <<>>)
      /\ QueueIsWhole /\ SleepsBeforeFront /\ ExecutesFront /\ GoesOn
  BY DEF ScheduleInv
<1>2. /\ clock \in Nat /\ wake \in Nat /\ SleepDur \in Nat
      /\ queue \in Seq(Command) /\ Ordered(queue)
      /\ command \in Command /\ executing \in Command
      /\ isClear \in BOOLEAN /\ fresh \in BOOLEAN
      /\ controlThread \in ControlSteps
      /\ tsc \in [Types -> SUBSET (1..8)] /\ failures \in Nat /\ old \subseteq Types
  BY <1>1 DEF ScheduleTypeOK, ObeyableAssumption, SchedulesAssumption, QueueInOrder, Ordered
\* What is left to show of a step that has the types of its variables right.
<1>3. ASSUME UNCHANGED <<commands, isClear, received>>,
             queue' \in Seq(Command), Ordered(queue'), command' \in Command,
             executing' \in Command, controlThread' \in ControlSteps,
             tsc' \in [Types -> SUBSET (1..8)], wake' \in Nat, clock' \in Nat, failures' \in Nat,
             fresh' \in BOOLEAN, old' \subseteq Types,
             QueueIsWhole', SleepsBeforeFront', ExecutesFront', GoesOn'
      PROVE  ScheduleInv'
  <2>1. commands' \in Seq(ScheduleCommand) /\ isClear' \in BOOLEAN
        /\ {wake', clock', received', failures'} \subseteq Nat
    BY <1>1, <1>3 DEF ScheduleTypeOK
  <2>2. ScheduleTypeOK'
    BY <1>3, <2>1 DEF ScheduleTypeOK
  <2>3. QueueInOrder' /\ Clear(commands') /\ (isClear' => commands' = <<>>)
    BY <1>1, <1>3 DEF QueueInOrder, Ordered
  <2> QED
    BY <1>3, <2>2, <2>3 DEF ScheduleInv
<1>4. ASSUME NEW kept \in SUBSET NotClear, Enter(kept) PROVE ScheduleInv'
  <2>1. /\ controlThread = "idle" /\ queue # <<>> /\ ClearAll(kept) /\ controlThread' = "loop"
        /\ UNCHANGED <<commands, isClear, clock, received, queue, command, executing, wake, fresh>>
    BY <1>4 DEF Enter, At, Goto
  <2>2. /\ tsc' \in [Types -> SUBSET (1..8)] /\ failures' \in Nat /\ old' \subseteq Types
        /\ \A t \in Types \ old' : tsc'[t] = {}
    BY <1>1, <2>1, ClearAllIsRight
  <2>3. QueueIsWhole' /\ SleepsBeforeFront' /\ ExecutesFront' /\ Unset' = old'
    BY <2>1 DEF QueueIsWhole, SleepsBeforeFront, ExecutesFront, Unset
  <2>4. queue' = SnmpCmds(commands')
    BY <1>1, <2>1 DEF QueueIsWhole
  <2>5. GoesOn'
    BY <1>1, <2>1, <2>2, <2>3, <2>4, GoesOnStart
  <2> QED
    BY <1>2, <1>3, <2>1, <2>2, <2>3, <2>5 DEF ControlSteps
<1>5. CASE EnterEmpty
  <2>1. /\ controlThread = "idle" /\ queue = <<>> /\ controlThread' = "loop"
        /\ UNCHANGED <<commands, isClear, clock, received, queue, command, executing, wake, tsc,
                       failures, fresh, old>>
    BY <1>5 DEF EnterEmpty, At, Goto
  <2>2. QueueIsWhole' /\ SleepsBeforeFront' /\ ExecutesFront' /\ Unset' = Unset
    BY <2>1 DEF QueueIsWhole, SleepsBeforeFront, ExecutesFront, Unset
  <2>3. GoesOn'
    BY <1>1, <1>2, <2>1, <2>2, GoesOnStep
  <2> QED
    BY <1>2, <1>3, <2>1, <2>2, <2>3 DEF ControlSteps
<1>6. CASE LoopTest
  <2>1. /\ controlThread = "loop"
        /\ UNCHANGED <<commands, isClear, clock, received, queue, executing, tsc, failures, old>>
        /\ IF queue = <<>>
           THEN /\ controlThread' = "idle" /\ wake' = clock + SleepDur
                /\ UNCHANGED <<command, fresh>>
           ELSE /\ command' = Head(queue) /\ fresh' = TRUE
                /\ \/ controlThread' = "caught" /\ wake' = wake
                   \/ controlThread' = "sleep" /\ wake' = Head(queue).at
    BY <1>6 DEF LoopTest, At, Return, Goto
  <2>2. queue # <<>> => Head(queue) \in Command /\ Head(queue).at \in Nat
    BY <1>2, RestIsOrdered DEF Command
  <2>3. /\ command' \in Command /\ wake' \in Nat /\ fresh' \in BOOLEAN
        /\ controlThread' \in {"idle", "caught", "sleep"}
    <3>1. CASE queue = <<>>
      BY <1>2, <2>1, <3>1
    <3>2. CASE queue # <<>>
      BY <1>2, <2>1, <2>2, <3>2
    <3> QED
      BY <3>1, <3>2
  <2>4. QueueIsWhole' /\ SleepsBeforeFront' /\ ExecutesFront' /\ Unset' = Unset
    BY <2>1, <2>3 DEF QueueIsWhole, SleepsBeforeFront, ExecutesFront, Unset
  <2>5. GoesOn'
    BY <1>1, <1>2, <2>1, <2>4, GoesOnStep
  <2> QED
    BY <1>2, <1>3, <2>1, <2>3, <2>4, <2>5 DEF ControlSteps
<1>7. CASE WakeUp
  <2>1. /\ controlThread = "sleep" /\ wake <= clock
        /\ UNCHANGED <<commands, isClear, clock, received, queue, command, executing, tsc, failures,
                       fresh, old>>
        /\ IF queue = <<>> \/ Head(queue) # command
           THEN controlThread' = "idle" /\ wake' = clock + SleepDur
           ELSE controlThread' = "batch" /\ wake' = wake
    BY <1>7 DEF WakeUp, At, Return, Goto
  <2>2. QueueIsWhole' /\ SleepsBeforeFront' /\ ExecutesFront' /\ Unset' = Unset
    BY <1>1, <2>1 DEF QueueIsWhole, SleepsBeforeFront, ExecutesFront, Unset
  <2>3. GoesOn'
    BY <1>1, <1>2, <2>1, <2>2, GoesOnStep
  <2>4. wake' \in Nat /\ controlThread' \in ControlSteps
    BY <1>2, <2>1 DEF ControlSteps
  <2> QED
    BY <1>2, <1>3, <2>1, <2>2, <2>3, <2>4
<1>8. CASE BatchTest
  <2>1. /\ controlThread = "batch"
        /\ UNCHANGED <<commands, isClear, clock, received, queue, command, wake, tsc, failures,
                       old>>
        /\ \/ /\ queue # <<>> /\ Head(queue).at = command.at
              /\ executing' = Head(queue) /\ fresh' = TRUE /\ controlThread' = "set"
           \/ controlThread' = "loop" /\ UNCHANGED <<executing, fresh>>
    BY <1>8 DEF BatchTest, At, Goto
  <2>2. QueueIsWhole' /\ SleepsBeforeFront' /\ ExecutesFront' /\ Unset' = Unset
    BY <1>1, <2>1 DEF QueueIsWhole, SleepsBeforeFront, ExecutesFront, Unset
  <2>3. GoesOn'
    BY <1>1, <1>2, <2>1, <2>2, GoesOnStep
  <2>4. queue # <<>> => Head(queue) \in Command
    BY <1>2, RestIsOrdered
  <2>5. executing' \in Command /\ fresh' \in BOOLEAN /\ controlThread' \in ControlSteps
    BY <1>2, <2>1, <2>4 DEF ControlSteps
  <2> QED
    BY <1>2, <1>3, <2>1, <2>2, <2>3, <2>5
<1>9. CASE RunSet
  <2> DEFINE done == [tsc EXCEPT ![executing.type] = executing.val]
  <2>1. /\ controlThread = "set"
        /\ UNCHANGED <<commands, isClear, clock, received, queue, command, executing, wake, fresh>>
        /\ \/ /\ tsc' = done /\ controlThread' = "pop" /\ failures' = failures
              /\ old' = IF fresh THEN old \ {executing.type} ELSE old \cup {executing.type}
           \/ /\ failures' = failures + 1 /\ tsc' \in {tsc, done} /\ controlThread' = "caught"
              /\ old' = old \cup {executing.type}
    BY <1>9 DEF RunSet, At, Goto
  <2>2. executing.type \in Types /\ executing.val \in SUBSET (1..8)
    BY <1>2 DEF Command
  <2>3. /\ done \in [Types -> SUBSET (1..8)] /\ done[executing.type] = executing.val
        /\ \A t \in Types \ {executing.type} : done[t] = tsc[t]
    BY <1>2, <2>2
  <2> HIDE DEF done
  <2>4. Unset = old /\ Unset' = old \cup {executing.type}
    BY <2>1 DEF Unset
  <2>5. /\ tsc' \in [Types -> SUBSET (1..8)]
        /\ \A t \in Types \ Unset' : tsc'[t] = tsc[t]
    BY <1>2, <2>1, <2>3, <2>4
  <2>6. GoesOn'
    BY <1>1, <1>2, <2>1, <2>4, <2>5, GoesOnStep
  <2>7. QueueIsWhole' /\ SleepsBeforeFront' /\ ExecutesFront'
    BY <1>1, <2>1, <2>3 DEF QueueIsWhole, SleepsBeforeFront, ExecutesFront
  <2>8. failures' \in Nat /\ controlThread' \in ControlSteps /\ old' \subseteq Types
    BY <1>2, <2>1, <2>2 DEF ControlSteps
  <2> QED
    BY <1>2, <1>3, <2>1, <2>5, <2>6, <2>7, <2>8
<1>10. CASE PopExecuted
  <2>1. /\ controlThread = "pop"
        /\ UNCHANGED <<commands, isClear, clock, received, command, executing, wake, tsc, failures,
                       fresh>>
        /\ IF queue = <<>>
           THEN controlThread' = "undefined" /\ UNCHANGED <<queue, old>>
           ELSE /\ queue' = Tail(queue) /\ controlThread' = "batch"
                /\ old' = IF fresh THEN old ELSE old \cup {Head(queue).type}
    BY <1>10 DEF PopExecuted, At, Goto
  <2>2. QueueIsWhole' /\ SleepsBeforeFront' /\ ExecutesFront' /\ Unset' = old'
    BY <1>1, <2>1 DEF QueueIsWhole, SleepsBeforeFront, ExecutesFront, Unset
  <2>3. queue # <<>> => /\ Tail(queue) \in Seq(Command) /\ Ordered(Tail(queue))
                        /\ Head(queue) \in Command /\ Head(queue).type \in Types
    BY <1>2, RestIsOrdered DEF Command
  <2>4. /\ queue' \in Seq(Command) /\ Ordered(queue') /\ old' \subseteq Types
        /\ controlThread' \in ControlSteps
    BY <1>2, <2>1, <2>3 DEF ControlSteps
  <2>5. CASE queue = <<>>
    <3>1. Unset = old /\ Unset' = old
      BY <1>1, <2>1, <2>2, <2>5 DEF Unset, ExecutesFront
    <3>2. GoesOn'
      BY <1>1, <1>2, <2>1, <2>5, <3>1, GoesOnStep
    <3> QED
      BY <1>2, <1>3, <2>1, <2>2, <2>4, <3>2
  <2>6. CASE queue # <<>> /\ fresh
    <3>1. /\ Head(queue) = executing /\ tsc[executing.type] = executing.val
          /\ executing.at <= clock
      BY <1>1, <2>1, <2>6 DEF ExecutesFront
    <3>2. Unset = old \cup {executing.type} /\ Unset' = old
      BY <2>1, <2>2, <2>6 DEF Unset
    <3>3. GoesOn'
      BY <1>1, <1>2, <2>1, <2>6, <3>1, <3>2, GoesOnPop
    <3> QED
      BY <1>2, <1>3, <2>1, <2>2, <2>4, <3>3
  <2>7. CASE queue # <<>> /\ ~ fresh
    <3>1. Unset = old /\ Unset' = old \cup {Head(queue).type}
      BY <2>1, <2>2, <2>7 DEF Unset
    <3>2. GoesOn'
      BY <1>1, <1>2, <2>1, <2>7, <3>1, GoesOnPop
    <3> QED
      BY <1>2, <1>3, <2>1, <2>2, <2>4, <3>2
  <2> QED
    BY <1>2, <2>5, <2>6, <2>7
<1>11. CASE CatchTest
  <2>1. /\ controlThread = "caught" /\ controlThread' \in {"ended", "discard"}
        /\ UNCHANGED <<commands, isClear, clock, received, queue, command, executing, wake, tsc,
                       failures, fresh, old>>
    BY <1>11 DEF CatchTest, At, Goto
  <2>2. QueueIsWhole' /\ SleepsBeforeFront' /\ ExecutesFront' /\ Unset' = Unset
    BY <2>1 DEF QueueIsWhole, SleepsBeforeFront, ExecutesFront, Unset
  <2>3. GoesOn'
    BY <1>1, <1>2, <2>1, <2>2, GoesOnStep
  <2> QED
    BY <1>2, <1>3, <2>1, <2>2, <2>3 DEF ControlSteps
<1>12. CASE DiscardFront
  <2>1. /\ controlThread = "discard"
        /\ UNCHANGED <<commands, isClear, clock, received, command, executing, wake, tsc, failures,
                       fresh>>
        /\ IF queue = <<>>
           THEN controlThread' = "undefined" /\ UNCHANGED <<queue, old>>
           ELSE /\ queue' = Tail(queue) /\ controlThread' = "ended"
                /\ old' = old \cup {Head(queue).type}
    BY <1>12 DEF DiscardFront, At, Goto
  <2>2. /\ QueueIsWhole' /\ SleepsBeforeFront' /\ ExecutesFront'
        /\ Unset = old /\ Unset' = old'
    BY <2>1 DEF QueueIsWhole, SleepsBeforeFront, ExecutesFront, Unset
  <2>3. queue # <<>> => /\ Tail(queue) \in Seq(Command) /\ Ordered(Tail(queue))
                        /\ Head(queue).type \in Types
    BY <1>2, RestIsOrdered DEF Command
  <2>4. GoesOn'
    <3>1. CASE queue = <<>>
      BY <1>1, <1>2, <2>1, <2>2, <3>1, GoesOnStep
    <3>2. CASE queue # <<>>
      BY <1>1, <1>2, <2>1, <2>2, <3>2, GoesOnPop
    <3> QED
      BY <3>1, <3>2
  <2>5. /\ queue' \in Seq(Command) /\ Ordered(queue') /\ old' \subseteq Types
        /\ controlThread' \in ControlSteps
    BY <1>2, <2>1, <2>3 DEF ControlSteps
  <2> QED
    BY <1>2, <1>3, <2>1, <2>2, <2>4, <2>5
<1>13. CASE Tick
  <2>1. /\ clock' = clock + 1
        /\ UNCHANGED <<commands, isClear, queue, controlThread, command, executing, wake, tsc,
                       received, failures, fresh, old>>
    BY <1>13 DEF Tick, threadVars
  <2>2. QueueIsWhole' /\ SleepsBeforeFront' /\ Unset' = Unset
    BY <1>1, <2>1 DEF QueueIsWhole, SleepsBeforeFront, Unset
  <2>3. command.at \in Nat
    BY <1>2 DEF Command
  <2>4. ExecutesFront'
    BY <1>1, <1>2, <2>1, <2>3 DEF ExecutesFront
  <2>5. GoesOn'
    BY <1>1, <1>2, <2>1, <2>2, GoesOnStep
  <2> QED
    BY <1>2, <1>3, <2>1, <2>2, <2>4, <2>5
<1> QED
  BY <1>4, <1>5, <1>6, <1>7, <1>8, <1>9, <1>10, <1>11, <1>12, <1>13 DEF ControlThread

\* Every step keeps the invariant.
LEMMA ScheduleStep ==
  ASSUME ObeyableAssumption, ScheduleInv, [ScheduleNext]_scheduleVars
  PROVE  ScheduleInv'
<1>1. CASE ScheduleNext
  BY <1>1, MessageStep, ThreadStep DEF ScheduleNext
<1>2. CASE UNCHANGED scheduleVars
  <2>1. UNCHANGED <<commands, isClear, queue, controlThread, command, executing, wake, tsc, clock,
                    received, failures, fresh, old>>
    BY <1>2 DEF scheduleVars, threadVars
  <2> QED
    BY <2>1 DEF ScheduleInv, ScheduleTypeOK, QueueInOrder, QueueIsWhole, SleepsBeforeFront,
                ExecutesFront, GoesOn, Unset
<1> QED
  BY <1>1, <1>2

\* The inductive invariant.
THEOREM ScheduleInvariance ==
  ASSUME ObeyableAssumption PROVE ScheduleSpec => []ScheduleInv
<1>1. ScheduleInv /\ [ScheduleNext]_scheduleVars => ScheduleInv'
  BY ScheduleStep
<1> QED
  BY ScheduleInitInv, <1>1, PTL DEF ScheduleSpec

\* Whatever schedules come, whenever they replace each other between two steps of the
\* thread, and whatever SETs and clears are lost: the queue is in the order of time, the
\* registers that the thread has cleared or set since a schedule came have exactly the
\* phases that it asks for, and after a clear schedule they have none.
THEOREM SchedulesAreObeyed ==
  ASSUME ObeyableAssumption PROVE ScheduleSpec => []ScheduleIsObeyed
BY ScheduleInvariance, ScheduleInvObeys, PTL

=============================================================================
