------------------------------ MODULE RpcProofs -------------------------------
(***************************************************************************)
(* The safety of RpcClient for any number of callers and ids: no promise   *)
(* is lost or set twice, and no response reaches a call it does not        *)
(* answer.  Then its counters, and the client and the dispatcher together: *)
(* the composition stays within what RpcClient assumes of its environment, *)
(* and what a future yields is what handle() did for it.                   *)
(***************************************************************************)
EXTENDS Rpc, FiniteSetTheorems, TLAPS

IInv == TypeOK /\ IdsOwned /\ PromiseOnePlace /\ ReplyMatchesCall

\* The initial state of RpcClient satisfies the inductive invariant.
LEMMA InitIInv == Init => IInv
<1> SUFFICES ASSUME Init PROVE IInv
  OBVIOUS
<1>1. TypeOK
  <2>1. exhausted \in BOOLEAN
    BY Zenon DEF Init
  <2> QED BY <2>1, IdAssumption DEF Init, TypeOK, Ids, Statuses
<1>2. IdsOwned
  <2>1. ~exhausted
    BY Zenon DEF Init
  <2> QED BY <2>1 DEF Init, IdsOwned
<1>3. PromiseOnePlace
  BY DEF Init, PromiseOnePlace, InPending, InMoved
<1>4. ReplyMatchesCall
  BY DEF Init, ReplyMatchesCall
<1> QED BY <1>1, <1>2, <1>3, <1>4 DEF IInv

\* call() returning at once preserves the inductive invariant.
LEMMA RefuseIInv == ASSUME IInv, NEW c \in Callers, Refuse(c) PROVE IInv'
<1> USE DEF IInv, Refuse, set_value
<1>1. TypeOK'
  <2>1. sets' \in [Callers -> Nat]
    BY DEF TypeOK
  <2>2. outcome' \in [Callers -> [status : Statuses, from : Callers \cup {NoOne}]]
    BY DEF TypeOK, Statuses
  <2>3. exhausted' \in BOOLEAN
    BY Zenon DEF TypeOK
  <2> QED BY <2>1, <2>2, <2>3 DEF TypeOK, counters
<1>2. IdsOwned'
  BY DEF TypeOK, IdsOwned, Used
<1>3. PromiseOnePlace'
  <2>1. \A e : (InPending(e)' <=> InPending(e)) /\ (InMoved(e)' <=> InMoved(e))
    BY ZenonT(60) DEF InPending, InMoved
  <2>2. pending' = pending /\ moved' = moved /\ pc[c] = "idle" /\ pc'[c] = "done"
    BY ZenonT(60) DEF TypeOK
  <2>3. sets[c] = 0 /\ ~InPending(c) /\ ~InMoved(c)
    <3>1. /\ sets[c] \in Nat /\ sets[c] <= 1 /\ sets[c] # 1
          /\ ~InPending(c) /\ ~InMoved(c)
      BY <2>2, ZenonT(60) DEF TypeOK, PromiseOnePlace
    <3> HIDE DEF IInv, Refuse
    <3> QED BY <3>1
  <2>4. sets'[c] = 1 /\ \A e \in Callers : e # c => sets'[e] = sets[e] /\ pc'[e] = pc[e]
    BY <2>3 DEF TypeOK
  <2> HIDE DEF IInv, Refuse, set_value
  <2>5. PromiseOnePlace
    BY ZenonT(60) DEF IInv
  <2> QED BY <2>1, <2>2, <2>3, <2>4, <2>5 DEF PromiseOnePlace
<1>4. ReplyMatchesCall'
  BY DEF TypeOK, ReplyMatchesCall
<1> QED BY <1>1, <1>2, <1>3, <1>4

\* The critical section of call() preserves the inductive invariant: the id
\* it takes is fresh, so its emplace succeeds.
LEMMA RegisterIInv ==
  ASSUME IInv, NEW c \in Callers, NEW timed \in BOOLEAN, Register(c, timed)
  PROVE  IInv'
<1> USE IdAssumption DEF IInv, Ids
<1> DEFINE new == [id |-> next, caller |-> c, timed |-> timed]
<1>1. \A p \in pending : p.id # next
  BY DEF TypeOK, IdsOwned, Used, Register
<1>2. pending' = pending \cup {new}
  BY <1>1 DEF Register, Find
<1>3. id[c] = 0 /\ \A d \in Callers : id[d] # next
  BY DEF TypeOK, IdsOwned, Used, Register
<1>a. exhausted' \in BOOLEAN
  BY Zenon DEF Register, exhausts
<1>b. ~exhausted /\ (exhausted' <=> next = MaxId)
  BY Zenon DEF Register, exhausts
<1>c. next' = id_after(next) /\ next' \in Ids
  BY DEF TypeOK, Register, id_after
<1>4. TypeOK'
  BY <1>2, <1>a, <1>c DEF TypeOK, Register
<1>5. IdsOwned'
  <2>1. (exhausted => next = MaxId)'
    BY <1>b, <1>c DEF TypeOK, id_after
  <2>2. \A i \in Ids : Used(i) \/ i = next => i < next' \/ (exhausted' /\ i = next')
    BY <1>b, <1>c DEF TypeOK, Used, id_after
  <2>4. \A d \in Callers : id'[d] = IF d = c THEN next ELSE id[d]
    BY ZenonT(60) DEF TypeOK, Register
  <2>5. (\A d \in Callers : /\ id[d] # 0 => Used(id[d]) /\ pc[d] # "idle"
                            /\ pc[d] \in {"send", "unsent"} => id[d] # 0)'
    BY <2>2, <2>4 DEF TypeOK, IdsOwned, Register, Used
  <2>6. (\A d, e \in Callers : id[d] # 0 /\ id[d] = id[e] => d = e)'
    BY <2>4, <1>3 DEF IdsOwned
  <2>7. (\A p \in pending : id[p.caller] = p.id)'
    <3>1. \A p \in pending : p.caller # c /\ p.caller \in Callers
      BY <1>3, <1>1 DEF IdsOwned, TypeOK
    <3> QED BY <3>1, <2>4, <1>2 DEF IdsOwned
  <2>8. (\A q \in requests : id[q.from] = q.id)'
    BY <2>4, <1>3 DEF IdsOwned, TypeOK, Register
  <2>9. (\A r \in responses : r.id # 0 => r.from \in Callers /\ id[r.from] = r.id)'
    BY <2>4, <1>3 DEF IdsOwned, TypeOK, Register
  <2> QED BY <2>1, <2>5, <2>6, <2>7, <2>8, <2>9 DEF IdsOwned
<1>6. PromiseOnePlace'
  <2>1. ~InPending(c) /\ ~InMoved(c) /\ sets[c] # 1
    BY DEF PromiseOnePlace, Register
  <2>2. \A d \in Callers : InPending(d)' <=> d = c \/ InPending(d)
    <3>1. new.caller = c
      OBVIOUS
    <3> HIDE DEF new
    <3> QED BY <1>2, <3>1 DEF InPending
  <2>3. \A d \in Callers : InMoved(d)' <=> InMoved(d)
    BY DEF InMoved, Register
  <2>4. sets[c] = 0 /\ sets' = sets
    <3>1. sets[c] \in Nat /\ sets[c] <= 1
      BY DEF PromiseOnePlace, TypeOK
    <3> QED BY <2>1, <3>1 DEF Register
  <2>5. \A d \in Callers : pc'[d] # "idle" <=> d = c \/ pc[d] # "idle"
    BY DEF TypeOK, Register
  <2>6. (\A p, q \in pending : p.caller = q.caller => p = q)'
    BY <1>2, <2>1 DEF PromiseOnePlace, InPending
  <2>7. (\A m, n \in moved : m.caller = n.caller => m = n)'
    BY DEF PromiseOnePlace, Register
  <2> QED BY <2>1, <2>2, <2>3, <2>4, <2>5, <2>6, <2>7, ZenonT(60) DEF PromiseOnePlace
<1>7. ReplyMatchesCall'
  BY ZenonT(60) DEF ReplyMatchesCall, Register
<1> QED BY <1>4, <1>5, <1>6, <1>7

\* Taking a pending call out of the table, for whatever reason, and handing
\* its promise on: the step common to on_response, sweep_timeouts and
\* cancel_all.  gone is the part taken, new the promises moved out.
LEMMA MoveOut ==
  ASSUME IInv, NEW gone \in SUBSET pending, NEW new,
         new \subseteq [caller : Callers, status : Statuses,
                       from : Callers \cup {NoOne}],
         \A m \in new : m.from \in {m.caller, NoOne},
         \A m \in new : \E p \in gone : p.caller = m.caller,
         \A p \in gone : \E m \in new : p.caller = m.caller,
         \A m, n \in new : m.caller = n.caller => m = n,
         pending' = pending \ gone, moved' = moved \cup new,
         UNCHANGED <<sets, pc, outcome>>
  PROVE  PromiseOnePlace' /\ ReplyMatchesCall'
<1> USE DEF IInv
<1>1. \A c \in Callers : InMoved(c)' <=> InMoved(c) \/ \E m \in new : m.caller = c
  BY SMTT(60) DEF InMoved
<1>2. \A c \in Callers :
        InPending(c)' <=> InPending(c) /\ ~ \E p \in gone : p.caller = c
  BY DEF InPending, PromiseOnePlace
<1>3. \A c \in Callers : (\E m \in new : m.caller = c) <=> \E p \in gone : p.caller = c
  OBVIOUS
<1>4. \A c \in Callers : (\E p \in gone : p.caller = c) => InPending(c)
  BY ZenonT(60) DEF InPending
<1>5. (\A c \in Callers :
         /\ sets[c] <= 1
         /\ InPending(c) => ~InMoved(c) /\ sets[c] = 0
         /\ InMoved(c) => sets[c] = 0
         /\ pc[c] # "idle" <=> InPending(c) \/ InMoved(c) \/ sets[c] = 1)'
  BY <1>1, <1>2, <1>3, <1>4, ZenonT(60) DEF PromiseOnePlace
<1>6. (\A p, q \in pending : p.caller = q.caller => p = q)'
  BY DEF PromiseOnePlace
<1>7. (\A m, n \in moved : m.caller = n.caller => m = n)'
  <2>1. \A m \in moved, n \in new : m.caller # n.caller
    BY <1>4, ZenonT(60) DEF PromiseOnePlace, InMoved, TypeOK
  <2> QED BY <2>1 DEF PromiseOnePlace
<1>8. ReplyMatchesCall'
  BY DEF ReplyMatchesCall
<1> QED BY <1>5, <1>6, <1>7, <1>8 DEF PromiseOnePlace

\* The send preserves the inductive invariant.
LEMMA SendIInv == ASSUME IInv, NEW c \in Callers, Send(c) PROVE IInv'
<1> USE DEF IInv, Send
<1> DEFINE q == [id |-> id[c], from |-> c, method |-> MethodOf[c]]
<1>1. requests' \in {requests, requests \cup {q}}
  BY ZenonT(60)
<1>2. id[c] \in Ids
  BY DEF TypeOK, IdsOwned, Ids
<1>3. q \in [id : Ids, from : Callers, method : Methods] /\ q.from = c /\ q.id = id[c]
  BY <1>2, ZenonT(60) DEF Methods
<1>4. \A d \in Callers : pc'[d] = "idle" <=> pc[d] = "idle"
  BY ZenonT(60) DEF TypeOK
<1> HIDE DEF q
<1>5. TypeOK'
  <2>1. pc' \in [Callers -> {"idle", "send", "unsent", "done"}]
    BY DEF TypeOK
  <2>2. exhausted' \in BOOLEAN
    BY Zenon DEF TypeOK
  <2> QED BY <1>1, <1>3, <2>1, <2>2, ZenonT(60) DEF TypeOK, counters
<1>6. IdsOwned'
  BY <1>1, <1>3, <1>4, SMTT(60) DEF TypeOK, IdsOwned, Used
<1>7. PromiseOnePlace'
  BY <1>4, ZenonT(60) DEF PromiseOnePlace, InPending, InMoved
<1>8. ReplyMatchesCall'
  BY DEF ReplyMatchesCall
<1> QED BY <1>5, <1>6, <1>7, <1>8, ZenonT(60)

\* Ids stay owned as long as calls only leave pending_ and none starts.
LEMMA IdsKept ==
  ASSUME IdsOwned, UNCHANGED <<next, exhausted, id, requests, responses>>,
         pending' \subseteq pending,
         \A d \in Callers : /\ pc'[d] = "idle" <=> pc[d] = "idle"
                            /\ pc'[d] \in {"send", "unsent"} => pc[d] \in {"send", "unsent"}
  PROVE  IdsOwned'
<1>1. \A i : Used(i)' <=> Used(i)
  BY ZenonT(60) DEF Used
<1> QED BY <1>1, ZenonT(60) DEF IdsOwned

\* The second critical section of call() preserves the inductive invariant.
LEMMA SendFailedIInv == ASSUME IInv, NEW c \in Callers, SendFailed(c) PROVE IInv'
<1> USE DEF IInv, SendFailed
<1>1. pc' = [pc EXCEPT ![c] = "done"]
  BY ZenonT(60)
<1>2. \A d \in Callers : /\ pc'[d] = "idle" <=> pc[d] = "idle"
                         /\ pc'[d] \in {"send", "unsent"} => pc[d] \in {"send", "unsent"}
  BY <1>1 DEF TypeOK
<1>3. exhausted' \in BOOLEAN
  BY Zenon DEF TypeOK
<1>i. IdsOwned /\ UNCHANGED <<next, exhausted, id, requests, responses>>
  BY ZenonT(60)
<1>4. CASE UNCHANGED <<pending, sets, outcome, send_failures>>
  <2>1. TypeOK'
    BY <1>1, <1>3, <1>4, ZenonT(60) DEF TypeOK
  <2>2. IdsOwned'
    <3>1. pending' \subseteq pending
      BY <1>4, ZenonT(60)
    <3> HIDE DEF IInv, SendFailed
    <3> QED BY <1>2, <1>i, <3>1, IdsKept, ZenonT(60)
  <2>3. PromiseOnePlace'
    BY <1>2, <1>4 DEF PromiseOnePlace, InPending, InMoved
  <2> QED BY <2>1, <2>2, <2>3, <1>4, ZenonT(60) DEF ReplyMatchesCall
<1>5. ASSUME NEW p \in Find(id[c]),
             set_value(p.caller, "UNAVAILABLE", NoOne),
             pending' = pending \ {p},
             send_failures' = send_failures + 1
      PROVE  IInv'
  <2> DEFINE d == p.caller
  <2>1. p \in pending /\ d \in Callers
    BY ZenonT(60) DEF Find, TypeOK
  <2>2. TypeOK'
    BY <1>1, <1>3, <1>5, <2>1, SMTT(60) DEF TypeOK, set_value, Statuses
  <2>3. IdsOwned'
    <3>1. pending' \subseteq pending
      BY <1>5, ZenonT(60)
    <3> HIDE DEF IInv, SendFailed
    <3> QED BY <1>2, <1>i, <3>1, IdsKept, ZenonT(60)
  <2>4. InPending(d) /\ ~InMoved(d) /\ sets[d] = 0
    BY <2>1 DEF PromiseOnePlace, InPending
  <2>5. \A e \in Callers : InMoved(e)' <=> InMoved(e)
    BY ZenonT(60) DEF InMoved
  <2>6. \A e \in Callers : InPending(e)' <=> InPending(e) /\ e # d
    BY <1>5, <2>1, ZenonT(60) DEF InPending, PromiseOnePlace
  <2>7. \A e \in Callers : sets'[e] = IF e = d THEN 1 ELSE sets[e]
    BY <1>5, <2>1, <2>4, SMTT(60) DEF set_value, TypeOK
  <2>8. PromiseOnePlace'
    <3>1. (\A e \in Callers :
             /\ sets[e] <= 1
             /\ InPending(e) => ~InMoved(e) /\ sets[e] = 0
             /\ InMoved(e) => sets[e] = 0
             /\ pc[e] # "idle" <=> InPending(e) \/ InMoved(e) \/ sets[e] = 1)'
      BY <1>2, <2>4, <2>5, <2>6, <2>7, SMTT(60) DEF PromiseOnePlace
    <3>2. (\A r, q \in pending : r.caller = q.caller => r = q)'
      BY <1>5, ZenonT(60) DEF PromiseOnePlace
    <3>3. (\A m, n \in moved : m.caller = n.caller => m = n)'
      BY ZenonT(60) DEF PromiseOnePlace
    <3> QED BY <3>1, <3>2, <3>3, ZenonT(60) DEF PromiseOnePlace
  <2>9. ReplyMatchesCall'
    BY <1>5, <2>1, ZenonT(60) DEF ReplyMatchesCall, set_value, TypeOK
  <2> QED BY <2>2, <2>3, <2>8, <2>9, ZenonT(60)
<1> QED BY <1>4, <1>5

\* A response preserves the inductive invariant: it carries the id of the
\* call it answers.
LEMMA ResponseIInv == ASSUME IInv, NEW r \in responses, on_response(r) PROVE IInv'
<1> USE DEF IInv, on_response
<1>1. exhausted' \in BOOLEAN
  BY Zenon DEF TypeOK
<1>2. responses' \subseteq responses
  BY ZenonT(60)
<1>3. CASE UNCHANGED <<pending, moved, matched>>
  <2>1. TypeOK'
    BY <1>1, <1>2, <1>3, ZenonT(60) DEF TypeOK
  <2>2. IdsOwned'
    BY <1>2, <1>3, ZenonT(60) DEF IdsOwned, Used
  <2>3. PromiseOnePlace'
    BY <1>3, ZenonT(60) DEF PromiseOnePlace, InPending, InMoved
  <2> QED BY <2>1, <2>2, <2>3, <1>3, ZenonT(60) DEF ReplyMatchesCall
<1>4. ASSUME NEW p \in Find(r.id),
             pending' = pending \ {p},
             moved' = moved \cup {Move(p, r.status, r.from)},
             matched' = matched + 1
      PROVE  IInv'
  <2>1. p \in pending /\ p.id = r.id
    BY ZenonT(60) DEF Find
  <2>a. r.id # 0 /\ r.status \in Statuses /\ p.caller \in Callers
    BY <2>1, SMTT(60) DEF TypeOK, Ids
  <2>2. p.caller = r.from /\ r.from \in Callers /\ r.status \in Statuses
    <3> HIDE DEF on_response
    <3>1. r.from \in Callers /\ id[r.from] = r.id /\ id[p.caller] = p.id
      BY <2>1, <2>a, ZenonT(60) DEF IdsOwned
    <3> QED BY <2>1, <2>a, <3>1, ZenonT(60) DEF IdsOwned
  <2> DEFINE new == {Move(p, r.status, r.from)}
  <2>3. new \subseteq [caller : Callers, status : Statuses, from : Callers \cup {NoOne}]
    BY <2>2 DEF Move
  <2>4. PromiseOnePlace' /\ ReplyMatchesCall'
    <3>1. \A m \in new : m.from = p.caller /\ m.caller = p.caller
      BY <2>2, SMTT(60) DEF Move
    <3>2. \E m \in new : m.caller = p.caller
      BY DEF Move
    <3> HIDE DEF new
    <3>3. \A m, n \in new : m = n
      BY ZenonT(60) DEF new
    <3>4. {p} \in SUBSET pending /\ moved' = moved \cup new
      BY <2>1, <1>4, ZenonT(60) DEF new
    <3>5. /\ \A m \in new : m.from \in {m.caller, NoOne}
          /\ \A m \in new : \E q \in {p} : q.caller = m.caller
          /\ \A q \in {p} : \E m \in new : q.caller = m.caller
          /\ \A m, n \in new : m.caller = n.caller => m = n
      BY <3>1, <3>2, <3>3, ZenonT(60)
    <3>6. UNCHANGED <<sets, pc, outcome>>
      BY ZenonT(60)
    <3> HIDE DEF on_response, IInv
    <3> QED BY <2>3, <1>4, <3>4, <3>5, <3>6, MoveOut, ZenonT(60)
  <2>5. TypeOK'
    BY <1>1, <1>2, <1>4, <2>3, SMTT(60) DEF TypeOK
  <2>6. IdsOwned'
    BY <1>2, <1>4, ZenonT(60) DEF IdsOwned, Used
  <2> QED BY <2>4, <2>5, <2>6, ZenonT(60)
<1> QED BY <1>3, <1>4

\* Moving out any set of pending calls with one status and no message behind
\* it: what sweep_timeouts and cancel_all do.
LEMMA MoveMany ==
  ASSUME IInv, NEW gone \in SUBSET pending, NEW s \in Statuses,
         pending' = pending \ gone,
         moved' = moved \cup {Move(p, s, NoOne) : p \in gone},
         UNCHANGED <<next, exhausted, pc, id, expired, sets, outcome, requests,
                     responses>>
  PROVE  /\ IdsOwned' /\ PromiseOnePlace' /\ ReplyMatchesCall'
         /\ moved' \subseteq [caller : Callers, status : Statuses,
                             from : Callers \cup {NoOne}]
<1> DEFINE new == {Move(p, s, NoOne) : p \in gone}
<1>1. \A p \in gone : p \in pending /\ p.caller \in Callers
  BY SMTT(60) DEF IInv, TypeOK
<1>2. new \subseteq [caller : Callers, status : Statuses, from : Callers \cup {NoOne}]
  <2>1. ASSUME NEW p \in gone
        PROVE  Move(p, s, NoOne) \in
                   [caller : Callers, status : Statuses, from : Callers \cup {NoOne}]
    <3>1. p.caller \in Callers /\ NoOne \in Callers \cup {NoOne}  BY <1>1, ZenonT(60)
    <3> QED BY <3>1, SMTT(60) DEF Move
  <2> QED BY <2>1, ZenonT(60)
<1>3. /\ \A m \in new : m.from \in {m.caller, NoOne}
      /\ \A m \in new : \E p \in gone : p.caller = m.caller
      /\ \A p \in gone : \E m \in new : p.caller = m.caller
  <2>1. \A m \in new : m.from = NoOne /\ \E p \in gone : p.caller = m.caller
    BY DEF Move
  <2>2. \A p \in gone : Move(p, s, NoOne) \in new
    BY ZenonT(60)
  <2>3. \A p \in gone : Move(p, s, NoOne).caller = p.caller
    BY ZenonT(60) DEF Move
  <2> HIDE DEF new
  <2> QED BY <2>1, <2>2, <2>3, ZenonT(60)
<1>4. \A m, n \in new : m.caller = n.caller => m = n
  <2>1. \A p, q \in gone : p.caller = q.caller => p = q
    BY <1>1, ZenonT(60) DEF IInv, PromiseOnePlace
  <2>2. \A m \in new : \E p \in gone : m = Move(p, s, NoOne) /\ m.caller = p.caller
    BY DEF Move
  <2> HIDE DEF new
  <2> QED BY <2>1, <2>2, ZenonT(60)
<1>5. moved' = moved \cup new
  BY ZenonT(60)
<1>6. IdsOwned'
  BY DEF IInv, IdsOwned, Used
<1> HIDE DEF new
<1>7. PromiseOnePlace' /\ ReplyMatchesCall'
  BY <1>2, <1>3, <1>4, <1>5, MoveOut, ZenonT(60)
<1> QED BY <1>2, <1>5, <1>6, <1>7, ZenonT(60) DEF IInv, TypeOK

\* A sweep preserves the inductive invariant.
LEMMA SweepIInv ==
  ASSUME IInv, IsFiniteSet(pending), sweep_timeouts PROVE IInv'
<1>1. Overdue \in SUBSET pending /\ "TIMED_OUT" \in Statuses
  BY DEF Overdue, Statuses
<1>2. Cardinality(Overdue) \in Nat
  BY <1>1, FS_Subset, FS_CardinalityType
<1>3. /\ pending' = pending \ Overdue
      /\ moved' = moved \cup {Move(p, "TIMED_OUT", NoOne) : p \in Overdue}
      /\ UNCHANGED <<next, exhausted, pc, id, expired, sets, outcome, requests,
                     responses>>
  BY DEF sweep_timeouts
<1> HIDE DEF Overdue
<1>4. /\ IdsOwned' /\ PromiseOnePlace' /\ ReplyMatchesCall'
      /\ moved' \subseteq [caller : Callers, status : Statuses,
                          from : Callers \cup {NoOne}]
  BY <1>1, <1>3, MoveMany
<1>5. exhausted' \in BOOLEAN
  BY <1>3, Zenon DEF IInv, TypeOK
<1> QED BY <1>2, <1>3, <1>4, <1>5 DEF IInv, TypeOK, sweep_timeouts

\* A cancellation preserves the inductive invariant.
LEMMA CancelIInv ==
  ASSUME IInv, IsFiniteSet(pending), cancel_all PROVE IInv'
<1>1. Cardinality(pending) \in Nat /\ "UNAVAILABLE" \in Statuses
  BY FS_CardinalityType, ZenonT(60) DEF Statuses
<1>2. /\ pending' = pending \ pending
      /\ moved' = moved \cup {Move(p, "UNAVAILABLE", NoOne) : p \in pending}
      /\ UNCHANGED <<next, exhausted, pc, id, expired, sets, outcome, requests,
                     responses>>
  BY DEF cancel_all
<1>3. pending \in SUBSET pending
  OBVIOUS
<1>4. /\ IdsOwned' /\ PromiseOnePlace' /\ ReplyMatchesCall'
      /\ moved' \subseteq [caller : Callers, status : Statuses,
                          from : Callers \cup {NoOne}]
  BY <1>1, <1>2, <1>3, MoveMany, ZenonT(60)
<1>5. exhausted' \in BOOLEAN
  BY <1>2, Zenon DEF IInv, TypeOK
<1> QED BY <1>1, <1>2, <1>4, <1>5 DEF IInv, TypeOK, cancel_all

\* Setting a promise after the lock preserves the inductive invariant.
LEMMA FulfilIInv == ASSUME IInv, NEW m \in moved, Fulfil(m) PROVE IInv'
<1> USE DEF IInv, Fulfil
<1> DEFINE d == m.caller
<1>1. d \in Callers /\ m.status \in Statuses /\ m.from \in Callers \cup {NoOne}
  BY DEF TypeOK
<1>2. exhausted' \in BOOLEAN
  BY Zenon DEF TypeOK
<1>3. TypeOK'
  <2>1. sets' \in [Callers -> Nat]
    <3>1. sets[d] + 1 \in Nat
      BY <1>1 DEF TypeOK
    <3> QED BY <1>1, <3>1, ZenonT(60) DEF TypeOK, set_value
  <2>2. outcome' \in [Callers -> [status : Statuses, from : Callers \cup {NoOne}]]
    BY <1>1, ZenonT(60) DEF TypeOK, set_value
  <2> QED BY <1>2, <2>1, <2>2, ZenonT(60) DEF TypeOK, counters
<1>4. IdsOwned'
  BY SMTT(60) DEF IdsOwned, Used
<1>5. InMoved(d) /\ ~InPending(d) /\ sets[d] = 0
  BY <1>1, ZenonT(60) DEF PromiseOnePlace, InMoved
<1>6. \A e \in Callers : InPending(e)' <=> InPending(e)
  BY ZenonT(60) DEF InPending
<1>7. \A e \in Callers : InMoved(e)' <=> InMoved(e) /\ e # d
  BY ZenonT(60) DEF InMoved, PromiseOnePlace
<1>8. \A e \in Callers : sets'[e] = IF e = d THEN 1 ELSE sets[e]
  BY <1>1, <1>5, SMTT(60) DEF set_value, TypeOK
<1>9. PromiseOnePlace'
  <2>1. (\A e \in Callers :
           /\ sets[e] <= 1
           /\ InPending(e) => ~InMoved(e) /\ sets[e] = 0
           /\ InMoved(e) => sets[e] = 0
           /\ pc[e] # "idle" <=> InPending(e) \/ InMoved(e) \/ sets[e] = 1)'
    BY <1>5, <1>6, <1>7, <1>8, SMTT(60) DEF PromiseOnePlace
  <2>2. (\A r, q \in pending : r.caller = q.caller => r = q)'
    BY ZenonT(60) DEF PromiseOnePlace
  <2>3. (\A n, o \in moved : n.caller = o.caller => n = o)'
    BY ZenonT(60) DEF PromiseOnePlace
  <2> QED BY <2>1, <2>2, <2>3, ZenonT(60) DEF PromiseOnePlace
<1>10. ReplyMatchesCall'
  BY <1>1, ZenonT(60) DEF ReplyMatchesCall, set_value, TypeOK
<1> QED BY <1>3, <1>4, <1>9, <1>10, ZenonT(60)

\* Every step of RpcClient preserves the inductive invariant.  The sweep and
\* the cancellation count a set, which must be finite.
LEMMA StepIInv ==
  IInv /\ IsFiniteSet(pending) /\ [Next]_vars => IInv' /\ IsFiniteSet(pending')
<1> SUFFICES ASSUME IInv, IsFiniteSet(pending), [Next]_vars
             PROVE  IInv' /\ IsFiniteSet(pending')
  OBVIOUS
<1>1. ASSUME NEW c \in Callers, Refuse(c)
      PROVE  IInv' /\ IsFiniteSet(pending')
  BY <1>1, RefuseIInv, ZenonT(60) DEF Refuse
<1>2. ASSUME NEW c \in Callers, NEW timed \in BOOLEAN, Register(c, timed)
      PROVE  IInv' /\ IsFiniteSet(pending')
  <2>1. IsFiniteSet(pending')
    BY <1>2, FS_AddElement, ZenonT(60) DEF Register
  <2> QED BY <1>2, <2>1, RegisterIInv
<1>3. ASSUME NEW c \in Callers, Send(c)
      PROVE  IInv' /\ IsFiniteSet(pending')
  BY <1>3, SendIInv, ZenonT(60) DEF Send
<1>4. ASSUME NEW c \in Callers, SendFailed(c)
      PROVE  IInv' /\ IsFiniteSet(pending')
  <2>1. pending' \subseteq pending
    BY <1>4 DEF SendFailed
  <2> QED BY <1>4, <2>1, SendFailedIInv, FS_Subset, ZenonT(60)
<1>5. ASSUME NEW r \in responses, on_response(r)
      PROVE  IInv' /\ IsFiniteSet(pending')
  <2>1. pending' \subseteq pending
    BY <1>5 DEF on_response
  <2> QED BY <1>5, <2>1, ResponseIInv, FS_Subset, ZenonT(60)
<1>6. CASE sweep_timeouts
  <2>1. pending' \subseteq pending
    BY <1>6 DEF sweep_timeouts
  <2> QED BY <1>6, <2>1, SweepIInv, FS_Subset, ZenonT(60)
<1>7. CASE cancel_all
  <2>1. pending' \subseteq pending
    BY <1>7, ZenonT(60) DEF cancel_all
  <2> QED BY <1>7, <2>1, CancelIInv, FS_Subset, ZenonT(60)
<1>8. ASSUME NEW m \in moved, Fulfil(m)
      PROVE  IInv' /\ IsFiniteSet(pending')
  BY <1>8, FulfilIInv, ZenonT(60) DEF Fulfil
<1>9. ASSUME NEW i \in Ids, Expire(i)
      PROVE  IInv' /\ IsFiniteSet(pending')
  <2>1. exhausted' \in BOOLEAN
    BY <1>9, Zenon DEF IInv, TypeOK, Expire
  <2>2. TypeOK'
    BY <1>9, <2>1, ZenonT(60) DEF IInv, TypeOK, Expire, counters
  <2>3. IdsOwned' /\ PromiseOnePlace' /\ ReplyMatchesCall'
    BY <1>9, ZenonT(60) DEF IInv, IdsOwned, Used, PromiseOnePlace, InPending, InMoved,
                ReplyMatchesCall, Expire
  <2> QED BY <1>9, <2>2, <2>3 DEF IInv, Expire
<1>10. CASE Environment
  <2>1. exhausted' \in BOOLEAN
    BY <1>10, Zenon DEF IInv, TypeOK, Environment, client
  <2>2. UNCHANGED <<next, exhausted, pending, moved, pc, id, expired, sets,
                    outcome, started, matched, timeouts, cancellations,
                    send_failures>>
    BY <1>10, ZenonT(60) DEF Environment, client, counters
  <2>3. \A r \in Replies :
          /\ r \in [id : 0..MaxId, from : Callers \cup {NoOne}, status : Statuses]
          /\ r.id # 0 => r.from \in Callers /\ id[r.from] = r.id
    <3>1. ASSUME NEW c \in Callers, NEW s \in Statuses,
                 NEW r, r = [id |-> id[c], from |-> c, status |-> s]
          PROVE  /\ r \in [id : 0..MaxId, from : Callers \cup {NoOne}, status : Statuses]
                 /\ r.from \in Callers /\ id[r.from] = r.id
      BY <3>1, ZenonT(60) DEF IInv, TypeOK
    <3>2. ASSUME NEW r, r = [id |-> 0, from |-> NoOne, status |-> "BAD_REQUEST"]
          PROVE  /\ r \in [id : 0..MaxId, from : Callers \cup {NoOne}, status : Statuses]
                 /\ r.id = 0
      BY <3>2, IdAssumption DEF Statuses
    <3> QED BY <3>1, <3>2, SMTT(60) DEF Replies
  <2>4. responses' \subseteq responses \cup Replies /\ requests' \subseteq requests
    BY <1>10, ZenonT(60) DEF Environment
  <2> HIDE DEF Replies
  <2>5. TypeOK'
    BY <2>1, <2>2, <2>3, <2>4, ZenonT(60) DEF IInv, TypeOK
  <2>6. IdsOwned'
    BY <2>2, <2>3, <2>4, ZenonT(60) DEF IInv, IdsOwned, Used
  <2>7. PromiseOnePlace' /\ ReplyMatchesCall'
    BY <2>2, ZenonT(60) DEF IInv, PromiseOnePlace, InPending, InMoved, ReplyMatchesCall
  <2> QED BY <2>2, <2>5, <2>6, <2>7 DEF IInv
<1>11. CASE UNCHANGED vars
  <2>1. exhausted' \in BOOLEAN
    BY <1>11, Zenon DEF IInv, TypeOK, vars, client
  <2>2. TypeOK'
    BY <1>11, <2>1, SMTT(60) DEF IInv, TypeOK, vars, client, counters
  <2>3. IdsOwned' /\ PromiseOnePlace' /\ ReplyMatchesCall'
    BY <1>11, ZenonT(60) DEF IInv, IdsOwned, Used, PromiseOnePlace, InPending, InMoved,
                 ReplyMatchesCall, vars, client
  <2> QED BY <1>11, <2>2, <2>3 DEF IInv, vars, client
<1> QED
  BY <1>1, <1>2, <1>3, <1>4, <1>5, <1>6, <1>7, <1>8, <1>9, <1>10, <1>11, ZenonT(60)
  DEF Next, ClientNext

\* For any callers and any number of ids, whatever the interleaving of calls,
\* responses, sweeps and cancellations: each promise of RpcClient is in one
\* place and set at most once.
THEOREM PromiseSafe == Spec => [](TypeOK /\ IdsOwned /\ PromiseOnePlace)
<1> DEFINE J == IInv /\ IsFiniteSet(pending)
<1>1. Init => J
  BY InitIInv, FS_EmptySet DEF Init
<1>2. J /\ [Next]_vars => J'
  BY StepIInv
<1>3. J => TypeOK /\ IdsOwned /\ PromiseOnePlace
  BY DEF IInv
<1> QED BY <1>1, <1>2, <1>3, PTL DEF Spec

\* A future of RpcClient is never resolved by a response to another call.
THEOREM RepliesMatch == Spec => []ReplyMatchesCall
<1> DEFINE J == IInv /\ IsFiniteSet(pending)
<1>1. Init => J
  BY InitIInv, FS_EmptySet DEF Init
<1>2. J /\ [Next]_vars => J'
  BY StepIInv
<1>3. J => ReplyMatchesCall
  BY Zenon DEF IInv
<1> QED BY <1>1, <1>2, <1>3, PTL DEF Spec
-------------------------------------------------------------------------------
\* Every step keeps the counters of RpcClient in balance.
LEMMA StepBalance ==
  ASSUME IInv, IsFiniteSet(pending), StatsBalance, [Next]_vars
  PROVE  StatsBalance'
<1> USE DEF StatsBalance
<1>0. /\ Cardinality(pending) \in Nat /\ started \in Nat /\ matched \in Nat
      /\ timeouts \in Nat /\ cancellations \in Nat /\ send_failures \in Nat
  BY FS_CardinalityType, SMTT(60) DEF IInv, TypeOK
<1>1. ASSUME NEW c \in Callers, NEW timed \in BOOLEAN, Register(c, timed)
      PROVE  StatsBalance'
  <2> DEFINE new == [id |-> next, caller |-> c, timed |-> timed]
  <2>1. \A p \in pending : p.id # next
    BY <1>1, SMTT(60) DEF IInv, TypeOK, IdsOwned, Used, Register, Ids
  <2>a. pending' = pending \cup {new} /\ new.id = next
    BY <1>1, <2>1 DEF Register, Find
  <2> HIDE DEF new
  <2>2. pending' = pending \cup {new} /\ new \notin pending
    BY <2>1, <2>a, SMTT(60)
  <2>3. Cardinality(pending') = Cardinality(pending) + 1
    BY <2>2, FS_AddElement, ZenonT(60)
  <2>4. /\ started' = started + 1 /\ matched' = matched /\ timeouts' = timeouts
        /\ cancellations' = cancellations /\ send_failures' = send_failures
    BY <1>1, ZenonT(60) DEF Register
  <2> QED BY <1>0, <2>3, <2>4, SMTT(60)
<1>2. ASSUME NEW c \in Callers, SendFailed(c) PROVE StatsBalance'
  <2>1. CASE UNCHANGED <<pending, send_failures>>
    BY <1>2, <2>1, SMTT(60) DEF SendFailed
  <2>2. ASSUME NEW p \in pending, pending' = pending \ {p},
               send_failures' = send_failures + 1
        PROVE  StatsBalance'
    <3>1. Cardinality(pending') = Cardinality(pending) - 1
      BY <2>2, FS_RemoveElement, SMTT(60)
    <3> QED BY <1>0, <1>2, <2>2, <3>1, SMTT(60) DEF SendFailed
  <2> QED BY <1>2, <2>1, <2>2 DEF SendFailed, Find
<1>3. ASSUME NEW r \in responses, on_response(r) PROVE StatsBalance'
  <2>1. CASE UNCHANGED <<pending, matched>>
    BY <1>3, <2>1, ZenonT(60) DEF on_response
  <2>2. ASSUME NEW p \in pending, pending' = pending \ {p}, matched' = matched + 1
        PROVE  StatsBalance'
    <3>1. Cardinality(pending') = Cardinality(pending) - 1
      BY <2>2, FS_RemoveElement, SMTT(60)
    <3> QED BY <1>0, <1>3, <2>2, <3>1, SMTT(60) DEF on_response
  <2> QED BY <1>3, <2>1, <2>2, ZenonT(60) DEF on_response, Find
<1>4. CASE sweep_timeouts
  <2>1. Overdue \subseteq pending /\ Overdue = pending \cap Overdue
    BY SMTT(60) DEF Overdue
  <2> HIDE DEF Overdue
  <2>2. Cardinality(pending') = Cardinality(pending) - Cardinality(Overdue)
    <3>1. pending' = pending \ Overdue
      BY <1>4 DEF sweep_timeouts
    <3>2. Cardinality(pending \ Overdue) =
            Cardinality(pending) - Cardinality(pending \cap Overdue)
      BY FS_Difference, Zenon
    <3> QED BY <3>1, <3>2, <2>1, ZenonT(60)
  <2>3. Cardinality(Overdue) \in Nat
    BY <2>1, FS_Subset, FS_CardinalityType, ZenonT(60)
  <2> QED BY <1>0, <1>4, <2>2, <2>3, SMTT(60) DEF sweep_timeouts
<1>5. CASE cancel_all
  BY <1>0, <1>5, FS_EmptySet, SMTT(60) DEF cancel_all
<1>6. ASSUME UNCHANGED <<pending, counters>> PROVE StatsBalance'
  BY <1>6, SMTT(60) DEF counters
<1>7. CASE UNCHANGED vars
  BY <1>6, <1>7 DEF vars, client
<1> QED
  BY <1>1, <1>2, <1>3, <1>4, <1>5, <1>6, <1>7, ZenonT(60)
  DEF Next, ClientNext, Refuse, Send, Fulfil, Expire, Environment, client

\* The counters of RpcClient account for every call that was started, in
\* every reachable state and for any number of callers.
THEOREM CountersBalance == Spec => []StatsBalance
<1> DEFINE J == IInv /\ IsFiniteSet(pending) /\ StatsBalance
<1>1. Init => J
  <2>1. Init => pending = {} /\ StatsBalance
    BY FS_EmptySet DEF Init, StatsBalance
  <2> QED BY <2>1, InitIInv, FS_EmptySet, ZenonT(60)
<1>2. J /\ [Next]_vars => J'
  BY StepIInv, StepBalance, ZenonT(60)
<1> QED BY <1>1, <1>2, PTL DEF Spec
-------------------------------------------------------------------------------
Verdicts == {"OK", "NOT_FOUND", "INTERNAL"}

\* A request on the wire or in a handler is the one its caller sent.
Sent(q) ==
    /\ q.from \in Callers /\ q.id = id[q.from] /\ id[q.from] # 0
    /\ q.method = MethodOf[q.from]
    /\ pc[q.from] \in {"unsent", "done"}

NotRun(c) == \A h \in running : h.req.from # c
Answered(c, s) == s = result[c] /\ NotRun(c)

Handlers == [req : [id : Ids, from : Callers, method : Methods], threw : BOOLEAN]

\* A call is in one place on its way through the dispatcher: on the wire, in
\* one handler, or answered, and every answer there is of it says what
\* handle() did.
ServerInv ==
    /\ running \subseteq Handlers
    /\ result \in [Callers -> Verdicts \cup {"none", "TOO_BIG"}]
    /\ \A c \in Callers : pc[c] \in {"idle", "send"} => result[c] = "none"
    /\ \A q \in requests : Sent(q) /\ result[q.from] = "none" /\ NotRun(q.from)
    /\ \A h \in running :
           /\ Sent(h.req)
           /\ result[h.req.from] = IF h.threw THEN "INTERNAL" ELSE "none"
    /\ \A g, h \in running : g.req.from = h.req.from => g = h
    /\ \A r \in responses :
           IF r.from = NoOne THEN r.status \notin Verdicts
           ELSE r.status \in Verdicts /\ Answered(r.from, r.status)
    /\ \A m \in moved : m.status \in Verdicts => Answered(m.caller, m.status)
    /\ \A c \in Callers :
           outcome[c].status \in Verdicts => Answered(c, outcome[c].status)

\* Before the first call nothing is under way.
LEMMA InitServer == RpcInit => ServerInv
BY CallerAssumption DEF RpcInit, Init, D!Init, ServerInv, Verdicts, NotRun, Answered, Sent

\* What the client and the wire may do without disturbing the invariant: new
\* requests are those of a call about to send, responses come from nowhere
\* only without a verdict, and verdicts reach moved and outcome from a
\* response and from moved.
CallsAdvance ==
    \A c \in Callers :
        /\ pc'[c] \in {"idle", "send"} => pc[c] \in {"idle", "send"}
        /\ pc[c] \in {"unsent", "done"} => pc'[c] \in {"unsent", "done"} /\ id'[c] = id[c]
OutcomesMoved ==
    \A c \in Callers :
        outcome'[c].status \in Verdicts =>
            \/ outcome'[c].status = outcome[c].status
            \/ \E m \in moved : m.caller = c /\ m.status = outcome'[c].status
RequestsSent ==
    \A q \in requests' :
        q \in requests \/ (q.from \in Callers /\ pc[q.from] = "send" /\ Sent(q)')
ResponsesKnown ==
    \A r \in responses' : r \in responses \/ (r.from = NoOne /\ r.status \notin Verdicts)
MovedAnswered ==
    \A m \in moved' :
        \/ m \in moved
        \/ m.status \notin Verdicts
        \/ \E r \in responses : r.from = m.caller /\ r.status = m.status

Benign ==
    /\ UNCHANGED <<running, result>>
    /\ CallsAdvance /\ OutcomesMoved /\ RequestsSent /\ ResponsesKnown /\ MovedAnswered

\* A benign step preserves the invariant of the dispatcher.
LEMMA BenignServer == ASSUME IInv, ServerInv, Benign PROVE ServerInv'
<1> USE DEF Benign, CallsAdvance, OutcomesMoved, RequestsSent, ResponsesKnown, MovedAnswered
<1>1. \A q : q \in requests \/ (\E h \in running : h.req = q) => Sent(q) /\ Sent(q)'
  <2>1. \A q : q \in requests \/ (\E h \in running : h.req = q) => Sent(q)
    <3> HIDE DEF Benign
    <3> QED BY ZenonT(60) DEF ServerInv
  <2>2. \A q : Sent(q) => Sent(q)'
    BY ZenonT(60) DEF Sent
  <2> QED BY <2>1, <2>2, ZenonT(60)
<1>2. \A c : NotRun(c)' <=> NotRun(c)
  BY ZenonT(60) DEF NotRun
<1>3. \A c \in Callers : pc[c] = "send" => NotRun(c)
  BY ZenonT(60) DEF ServerInv, NotRun, Sent
<1>4. \A q \in requests' : Sent(q)' /\ result'[q.from] = "none" /\ NotRun(q.from)'
  BY <1>1, <1>2, <1>3, ZenonT(60) DEF ServerInv
<1>5. \A h \in running' :
          /\ Sent(h.req)'
          /\ result'[h.req.from] = IF h.threw THEN "INTERNAL" ELSE "none"
  BY <1>1, ZenonT(60) DEF ServerInv
<1>6. \A r \in responses' :
          IF r.from = NoOne THEN r.status \notin Verdicts
          ELSE r.status \in Verdicts /\ Answered(r.from, r.status)'
  <2> SUFFICES ASSUME NEW r \in responses'
               PROVE  IF r.from = NoOne THEN r.status \notin Verdicts
                      ELSE r.status \in Verdicts /\ Answered(r.from, r.status)'
    OBVIOUS
  <2>1. Answered(r.from, r.status)' <=> Answered(r.from, r.status)
    BY <1>2, ZenonT(60) DEF Answered
  <2>2. CASE r \in responses
    BY <2>1, <2>2, ZenonT(60) DEF ServerInv
  <2>3. CASE r.from = NoOne /\ r.status \notin Verdicts
    BY <2>3, ZenonT(60)
  <2> QED BY <2>2, <2>3, ZenonT(60)
<1>7. \A m \in moved' : m.status \in Verdicts => Answered(m.caller, m.status)'
  <2> SUFFICES ASSUME NEW m \in moved', m.status \in Verdicts
               PROVE  Answered(m.caller, m.status)
    BY <1>2, ZenonT(60) DEF Answered
  <2>1. CASE m \in moved
    BY <2>1, ZenonT(60) DEF ServerInv
  <2>2. ASSUME NEW r \in responses, r.from = m.caller, r.status = m.status
        PROVE  Answered(m.caller, m.status)
    BY <2>2, ZenonT(60) DEF ServerInv
  <2> QED BY <2>1, <2>2, ZenonT(60)
<1>8. \A c \in Callers :
          outcome'[c].status \in Verdicts => Answered(c, outcome[c].status)'
  <2> SUFFICES ASSUME NEW c \in Callers, outcome'[c].status \in Verdicts
               PROVE  Answered(c, outcome'[c].status)
    BY <1>2, ZenonT(60) DEF Answered
  <2>1. CASE outcome'[c].status = outcome[c].status
    BY <2>1, ZenonT(60) DEF ServerInv
  <2>2. ASSUME NEW m \in moved, m.caller = c, m.status = outcome'[c].status
        PROVE  Answered(c, outcome'[c].status)
    BY <2>2, ZenonT(60) DEF ServerInv
  <2> QED BY <2>1, <2>2, ZenonT(60)
<1>9. \A c \in Callers : pc'[c] \in {"idle", "send"} => result'[c] = "none"
  BY ZenonT(60) DEF ServerInv
<1>10. /\ running' \subseteq Handlers
       /\ result' \in [Callers -> Verdicts \cup {"none", "TOO_BIG"}]
       /\ \A g, h \in running' : g.req.from = h.req.from => g = h
  BY DEF ServerInv
<1> HIDE DEF Benign
<1> QED BY <1>4, <1>5, <1>6, <1>7, <1>8, <1>9, <1>10, ZenonT(60) DEF ServerInv


\* What leaves a part of the state alone is benign as far as that part goes.
LEMMA QuietParts ==
  /\ pc' = pc /\ id' = id => CallsAdvance
  /\ outcome' = outcome => OutcomesMoved
  /\ requests' \subseteq requests => RequestsSent
  /\ responses' \subseteq responses => ResponsesKnown
  /\ moved' \subseteq moved => MovedAnswered
<1>1. pc' = pc /\ id' = id => CallsAdvance
  BY ZenonT(60) DEF CallsAdvance
<1>2. outcome' = outcome => OutcomesMoved
  BY ZenonT(60) DEF OutcomesMoved
<1>3. requests' \subseteq requests => RequestsSent
  BY ZenonT(60) DEF RequestsSent
<1>4. responses' \subseteq responses => ResponsesKnown
  BY ZenonT(60) DEF ResponsesKnown
<1>5. moved' \subseteq moved => MovedAnswered
  BY ZenonT(60) DEF MovedAnswered
<1> QED BY <1>1, <1>2, <1>3, <1>4, <1>5, ZenonT(60)

\* Every step of the client is benign: a response that finds a call in
\* pending_ answers that very call.
LEMMA ClientBenign ==
  ASSUME IInv, ServerInv, ClientNext, UNCHANGED <<server, lost>>
  PROVE  Benign
<1>0. UNCHANGED <<running, result>>
  BY ZenonT(60) DEF server
<1>t. /\ pc \in [Callers -> {"idle", "send", "unsent", "done"}]
      /\ id \in [Callers -> 0..MaxId]
      /\ outcome \in [Callers -> [status : Statuses, from : Callers \cup {NoOne}]]
      /\ moved \subseteq [caller : Callers, status : Statuses,
                          from : Callers \cup {NoOne}]
      /\ pending \subseteq [id : Ids, caller : Callers, timed : BOOLEAN]
  BY DEF IInv, TypeOK
<1>i. \A c \in Callers : pc[c] = "send" => id[c] # 0
  BY ZenonT(60) DEF IInv, IdsOwned
<1>d. ASSUME NEW c \in Callers, pc' = [pc EXCEPT ![c] = "done"], id' = id PROVE CallsAdvance
  BY <1>d, <1>t, ZenonT(60) DEF CallsAdvance
<1>u. ASSUME NEW c \in Callers, NEW s, NEW f, set_value(c, s, f), s \notin Verdicts
      PROVE  OutcomesMoved
  <2> SUFFICES ASSUME NEW e \in Callers
               PROVE  outcome'[e].status = s \/ outcome'[e] = outcome[e]
    BY <1>u, ZenonT(60) DEF OutcomesMoved
  <2> QED BY <1>u, <1>t, ZenonT(60) DEF set_value
<1>x. ASSUME NEW S, NEW s, s \notin Verdicts, moved' = moved \cup {Move(p, s, NoOne) : p \in S}
      PROVE  MovedAnswered
  <2>1. \A p : Move(p, s, NoOne).status = s
    BY ZenonT(60) DEF Move
  <2>2. \A m \in moved' : m \in moved \/ m.status = s
    BY <1>x, <2>1, ZenonT(60)
  <2> QED BY <1>x, <2>2, ZenonT(60) DEF MovedAnswered
<1>v. "BAD_REQUEST" \notin Verdicts /\ "UNAVAILABLE" \notin Verdicts /\ "TIMED_OUT" \notin Verdicts
  BY ZenonT(60) DEF Verdicts
<1> USE DEF Benign
<1>1. ASSUME NEW c \in Callers, Refuse(c) PROVE Benign
  <2>1. CallsAdvance /\ RequestsSent /\ ResponsesKnown /\ MovedAnswered
    BY <1>1, <1>d, QuietParts, ZenonT(60) DEF Refuse
  <2>2. OutcomesMoved
    BY <1>1, <1>u, <1>v, ZenonT(60) DEF Refuse
  <2> QED BY <1>0, <2>1, <2>2, ZenonT(60)
<1>2. ASSUME NEW c \in Callers, NEW timed \in BOOLEAN, Register(c, timed)
      PROVE  Benign
  <2>1. CallsAdvance
    BY <1>2, <1>t, ZenonT(60) DEF Register, CallsAdvance
  <2> QED BY <1>0, <1>2, <2>1, QuietParts, ZenonT(60) DEF Register
<1>3. ASSUME NEW c \in Callers, Send(c) PROVE Benign
  <2> DEFINE q == [id |-> id[c], from |-> c, method |-> MethodOf[c]]
  <2>1. pc[c] = "send" /\ id' = id /\ pc'[c] \in {"unsent", "done"} /\ id[c] # 0
    BY <1>3, <1>t, <1>i, ZenonT(60) DEF Send
  <2>2. CallsAdvance
    <3>1. \A e \in Callers : e # c => pc'[e] = pc[e]
      BY <1>3, <1>t, ZenonT(60) DEF Send
    <3> QED BY <2>1, <3>1, ZenonT(60) DEF CallsAdvance
  <2>3. RequestsSent
    <3>1. requests' \subseteq requests \cup {q}
      BY <1>3, ZenonT(60) DEF Send
    <3>2. q.id = id[c] /\ q.from = c /\ q.method = MethodOf[c]
      BY ZenonT(60)
    <3> HIDE DEF q
    <3> QED BY <2>1, <3>1, <3>2, ZenonT(60) DEF RequestsSent, Sent
  <2> QED BY <1>0, <1>3, <2>2, <2>3, QuietParts, ZenonT(60) DEF Send
<1>4. ASSUME NEW c \in Callers, SendFailed(c) PROVE Benign
  <2>1. OutcomesMoved
    <3>1. CASE outcome' = outcome
      BY <3>1, QuietParts, ZenonT(60)
    <3>2. ASSUME NEW p \in Find(id[c]), set_value(p.caller, "UNAVAILABLE", NoOne)
          PROVE  OutcomesMoved
      <4>1. p.caller \in Callers
        BY <1>t, ZenonT(60) DEF Find
      <4> QED BY <3>2, <4>1, <1>u, <1>v, ZenonT(60)
    <3> QED BY <1>4, <3>1, <3>2, ZenonT(60) DEF SendFailed
  <2> QED BY <1>0, <1>4, <2>1, <1>d, QuietParts, ZenonT(60) DEF SendFailed
<1>5. ASSUME NEW r \in responses, on_response(r) PROVE Benign
  <2>1. ASSUME NEW p \in Find(r.id) PROVE p \in pending /\ r.from = p.caller
    <3>1. p \in pending /\ p.id = r.id /\ p.id \in Ids /\ p.caller \in Callers
      BY <1>t, ZenonT(60) DEF Find
    <3>2. p.id # 0
      BY <3>1, CallerAssumption, SMTT(60) DEF Ids
    <3>3. id[p.caller] = p.id /\ r.from \in Callers /\ id[r.from] = r.id
      BY <3>1, <3>2, ZenonT(60) DEF IInv, IdsOwned
    <3> QED BY <3>1, <3>2, <3>3, ZenonT(60) DEF IInv, IdsOwned
  <2>2. MovedAnswered
    <3>1. CASE moved' = moved
      BY <3>1, QuietParts, ZenonT(60)
    <3>2. ASSUME NEW p \in Find(r.id), moved' = moved \cup {Move(p, r.status, r.from)}
          PROVE  MovedAnswered
      <4> DEFINE new == Move(p, r.status, r.from)
      <4>1. new.status = r.status /\ new.caller = p.caller
        BY ZenonT(60) DEF Move
      <4> HIDE DEF new
      <4>2. moved' = moved \cup {new}
        BY <3>2, ZenonT(60) DEF new
      <4> QED BY <2>1, <4>1, <4>2, ZenonT(60) DEF MovedAnswered
    <3> QED BY <1>5, <3>1, <3>2, ZenonT(60) DEF on_response
  <2>3. responses' \subseteq responses
    BY <1>5, ZenonT(60) DEF on_response
  <2> QED BY <1>0, <1>5, <2>2, <2>3, QuietParts, ZenonT(60) DEF on_response
<1>6. ASSUME sweep_timeouts PROVE Benign
  BY <1>0, <1>6, QuietParts, <1>x, <1>v, ZenonT(60) DEF sweep_timeouts
<1>7. ASSUME cancel_all PROVE Benign
  BY <1>0, <1>7, QuietParts, <1>x, <1>v, ZenonT(60) DEF cancel_all
<1>8. ASSUME NEW m \in moved, Fulfil(m) PROVE Benign
  <2>1. OutcomesMoved
    BY <1>8, <1>t, ZenonT(60) DEF Fulfil, set_value, OutcomesMoved
  <2> QED BY <1>0, <1>8, <2>1, QuietParts, ZenonT(60) DEF Fulfil
<1>9. ASSUME NEW i \in Ids, Expire(i) PROVE Benign
  BY <1>0, <1>9, QuietParts, ZenonT(60) DEF Expire
<1> QED BY <1>1, <1>2, <1>3, <1>4, <1>5, <1>6, <1>7, <1>8, <1>9, ZenonT(60) DEF ClientNext

\* Losing a message, answering bytes that do not decode and changing the table
\* of methods are benign too.
LEMMA WireBenign ==
  ASSUME IInv, ServerInv, UNCHANGED client,
         \/ \E q \in requests : LoseRequest(q) \/ Garble(q)
         \/ \E r \in responses : LoseResponse(r)
         \/ \E m \in Methods : D!register_method(m) \/ D!unregister_method(m)
  PROVE  Benign
<1>0. CallsAdvance /\ OutcomesMoved /\ MovedAnswered
  <2>1. UNCHANGED <<moved, pc, id, outcome>>
    BY ZenonT(60) DEF client
  <2> QED BY <2>1, QuietParts, ZenonT(60)
<1> USE DEF Benign
<1>1. ASSUME NEW q \in requests, LoseRequest(q) PROVE Benign
  <2>1. /\ requests' \subseteq requests /\ responses' \subseteq responses
        /\ running' = running /\ result' = result
    BY <1>1, ZenonT(60) DEF LoseRequest, server
  <2> QED BY <1>0, <2>1, QuietParts, ZenonT(60)
<1>2. ASSUME NEW q \in requests, Garble(q) PROVE Benign
  <2> DEFINE r == [id |-> 0, from |-> NoOne, status |-> "BAD_REQUEST"]
  <2>1. /\ requests' \subseteq requests /\ responses' = responses \cup {r}
        /\ running' = running /\ result' = result
    BY <1>2, ZenonT(60) DEF Garble, D!HandleMalformed
  <2>2. r.from = NoOne /\ r.status = "BAD_REQUEST" /\ "BAD_REQUEST" \notin Verdicts
    BY ZenonT(60) DEF Verdicts
  <2> HIDE DEF r
  <2>3. ResponsesKnown
    BY <2>1, <2>2, ZenonT(60) DEF ResponsesKnown
  <2> QED BY <1>0, <2>1, <2>3, QuietParts, ZenonT(60)
<1>3. ASSUME NEW r \in responses, LoseResponse(r) PROVE Benign
  <2>1. /\ requests' \subseteq requests /\ responses' \subseteq responses
        /\ running' = running /\ result' = result
    BY <1>3, ZenonT(60) DEF LoseResponse, server
  <2> QED BY <1>0, <2>1, QuietParts, ZenonT(60)
<1>4. ASSUME NEW m \in Methods, D!register_method(m) \/ D!unregister_method(m)
      PROVE  Benign
  <2>1. /\ requests' \subseteq requests /\ responses' \subseteq responses
        /\ running' = running /\ result' = result
    BY <1>4, ZenonT(60) DEF D!register_method, D!unregister_method
  <2> QED BY <1>0, <2>1, QuietParts, ZenonT(60)
<1> QED BY <1>1, <1>2, <1>3, <1>4, ZenonT(60)

\* What handle() may do: it moves the call of c on, which has no answer yet, and
\* leaves every other call alone.
Advances(c) ==
    /\ c \in Callers /\ pc[c] \in {"unsent", "done"}
    /\ UNCHANGED <<moved, pc, id, outcome>>
    /\ \A v \in Verdicts : ~Answered(c, v)
    /\ running' \subseteq Handlers
    /\ result' \in [Callers -> Verdicts \cup {"none", "TOO_BIG"}]
    /\ \A d \in Callers : d # c => result'[d] = result[d]
    /\ \A q \in requests' : q \in requests /\ q.from # c
    /\ \A h \in running' :
           \/ h \in running /\ h.req.from # c
           \/ /\ Sent(h.req) /\ h.req.from = c
              /\ result'[c] = IF h.threw THEN "INTERNAL" ELSE "none"
    /\ \A g, h \in running' : g.req.from = c /\ h.req.from = c => g = h
    /\ \A r \in responses' :
           \/ r \in responses
           \/ /\ r.from = c /\ r.status \in Verdicts /\ r.status = result'[c]
              /\ \A h \in running' : h.req.from # c

\* Such a step preserves the invariant.
LEMMA AdvanceServer == ASSUME IInv, ServerInv, NEW c, Advances(c) PROVE ServerInv'
<1>a. /\ c \in Callers /\ pc[c] \in {"unsent", "done"}
      /\ UNCHANGED <<moved, pc, id, outcome>> /\ running' \subseteq Handlers
  BY ZenonT(60) DEF Advances
<1>b. /\ \A v \in Verdicts : ~Answered(c, v)
      /\ result' \in [Callers -> Verdicts \cup {"none", "TOO_BIG"}]
      /\ \A d \in Callers : d # c => result'[d] = result[d]
  BY ZenonT(60) DEF Advances
<1>c. \A q \in requests' : q \in requests /\ q.from # c
  BY SMTT(60) DEF Advances
<1>d. \A h \in running' :
          \/ h \in running /\ h.req.from # c
          \/ /\ Sent(h.req) /\ h.req.from = c
             /\ result'[c] = IF h.threw THEN "INTERNAL" ELSE "none"
  BY ZenonT(60) DEF Advances
<1>e. \A g, h \in running' : g.req.from = c /\ h.req.from = c => g = h
  BY ZenonT(60) DEF Advances
<1>f. \A r \in responses' :
          \/ r \in responses
          \/ /\ r.from = c /\ r.status \in Verdicts /\ r.status = result'[c]
             /\ \A h \in running' : h.req.from # c
  BY ZenonT(60) DEF Advances
<1>1. \A q : Sent(q)' <=> Sent(q)
  BY <1>a, ZenonT(60) DEF Sent
<1>2. \A d \in Callers : d # c /\ NotRun(d) => NotRun(d)'
  BY <1>d, ZenonT(60) DEF NotRun
<1>3. \A d \in Callers, v \in Verdicts : Answered(d, v) => d # c /\ Answered(d, v)'
  BY <1>b, <1>2, ZenonT(60) DEF Answered
<1>4. \A q \in requests' : Sent(q)' /\ result'[q.from] = "none" /\ NotRun(q.from)'
  <2>1. \A q \in requests : Sent(q) /\ result[q.from] = "none" /\ NotRun(q.from)
    BY ZenonT(60) DEF ServerInv
  <2>2. \A q \in requests : q.from \in Callers
    BY <2>1, ZenonT(60) DEF Sent
  <2> QED BY <1>b, <1>c, <1>1, <1>2, <2>1, <2>2, ZenonT(60)
<1>5. \A h \in running' :
          /\ Sent(h.req)'
          /\ result'[h.req.from] = IF h.threw THEN "INTERNAL" ELSE "none"
  <2>1. \A h \in running : /\ Sent(h.req)
                           /\ result[h.req.from] = IF h.threw THEN "INTERNAL" ELSE "none"
    BY ZenonT(60) DEF ServerInv
  <2>2. \A h \in running : h.req.from \in Callers
    BY <2>1, ZenonT(60) DEF Sent
  <2> QED BY <1>b, <1>d, <1>1, <2>1, <2>2, SMTT(60)
<1>6. \A g, h \in running' : g.req.from = h.req.from => g = h
  <2>1. \A g, h \in running : g.req.from = h.req.from => g = h
    BY ZenonT(60) DEF ServerInv
  <2> QED BY <1>d, <1>e, <2>1, ZenonT(60)
<1>7. \A r \in responses' :
          IF r.from = NoOne THEN r.status \notin Verdicts
          ELSE r.status \in Verdicts /\ Answered(r.from, r.status)'
  <2> SUFFICES ASSUME NEW r \in responses'
               PROVE  IF r.from = NoOne THEN r.status \notin Verdicts
                      ELSE r.status \in Verdicts /\ Answered(r.from, r.status)'
    BY ZenonT(60)
  <2>1. CASE r \in responses
    <3>1. r.from \in Callers \cup {NoOne}
      BY <2>1, ZenonT(60) DEF IInv, TypeOK
    <3>2. IF r.from = NoOne THEN r.status \notin Verdicts
          ELSE r.status \in Verdicts /\ Answered(r.from, r.status)
      BY <2>1, ZenonT(60) DEF ServerInv
    <3> QED BY <1>3, <3>1, <3>2, ZenonT(60)
  <2>2. CASE r \notin responses
    BY <1>a, <1>f, <2>2, CallerAssumption, ZenonT(60) DEF Answered, NotRun
  <2> QED BY <2>1, <2>2, ZenonT(60)
<1>8. \A m \in moved' : m.status \in Verdicts => Answered(m.caller, m.status)'
  <2>1. \A m \in moved : m.caller \in Callers
    BY SMTT(60) DEF IInv, TypeOK
  <2>2. \A m \in moved : m.status \in Verdicts => Answered(m.caller, m.status)
    BY ZenonT(60) DEF ServerInv
  <2> QED BY <1>a, <1>3, <2>1, <2>2, ZenonT(60)
<1>9. \A d \in Callers :
          outcome'[d].status \in Verdicts => Answered(d, outcome[d].status)'
  <2>1. \A d \in Callers : outcome[d].status \in Verdicts => Answered(d, outcome[d].status)
    BY ZenonT(60) DEF ServerInv
  <2> QED BY <1>a, <1>3, <2>1, ZenonT(60) DEF Answered
<1>10. \A d \in Callers : pc'[d] \in {"idle", "send"} => result'[d] = "none"
  BY <1>a, <1>b, ZenonT(60) DEF ServerInv
<1> QED BY <1>a, <1>b, <1>4, <1>5, <1>6, <1>7, <1>8, <1>9, <1>10, ZenonT(60) DEF ServerInv

\* What the invariant says of a request on the wire.
LEMMA AtRequest ==
  ASSUME IInv, ServerInv, NEW q \in requests
  PROVE  /\ q.from \in Callers /\ pc[q.from] \in {"unsent", "done"} /\ Sent(q)
         /\ result[q.from] = "none" /\ NotRun(q.from)
         /\ \A p \in requests : p.from = q.from => p = q
<1>1. Sent(q) /\ result[q.from] = "none" /\ NotRun(q.from)
  BY ZenonT(60) DEF ServerInv
<1>2. \A p \in requests : Sent(p)
  BY ZenonT(60) DEF ServerInv
<1>3. requests \subseteq [id : Ids, from : Callers, method : Methods]
  BY ZenonT(60) DEF IInv, TypeOK
<1>4. \A p \in requests : p.from = q.from => p = q
  BY <1>1, <1>2, <1>3, SMTT(60) DEF Sent
<1> QED BY <1>1, <1>4, ZenonT(60) DEF Sent

\* What it says of a handler under way.
LEMMA AtHandler ==
  ASSUME ServerInv, NEW h \in running
  PROVE  /\ h.req.from \in Callers /\ pc[h.req.from] \in {"unsent", "done"}
         /\ Sent(h.req) /\ ~NotRun(h.req.from)
         /\ \A g \in running : g.req.from = h.req.from => g = h
         /\ \A q \in requests : q.from # h.req.from
         /\ h.threw => result[h.req.from] = "INTERNAL"
<1>1. /\ Sent(h.req)
      /\ result[h.req.from] = IF h.threw THEN "INTERNAL" ELSE "none"
  BY ZenonT(60) DEF ServerInv
<1>2. \A g \in running : g.req.from = h.req.from => g = h
  BY ZenonT(60) DEF ServerInv
<1>3. \A q \in requests : NotRun(q.from)
  BY ZenonT(60) DEF ServerInv
<1>4. ~NotRun(h.req.from) /\ \A q \in requests : q.from # h.req.from
  BY <1>3, ZenonT(60) DEF NotRun
<1>5. h.threw => result[h.req.from] = "INTERNAL"
  BY <1>1, ZenonT(60)
<1>6. h.req.from \in Callers /\ pc[h.req.from] \in {"unsent", "done"}
  BY <1>1, ZenonT(60) DEF Sent
<1> QED BY <1>1, <1>2, <1>4, <1>5, <1>6, ZenonT(60)

\* The types of the history of handle().
LEMMA ServerTypes ==
  ASSUME ServerInv
  PROVE  /\ running \subseteq Handlers
         /\ result \in [Callers -> Verdicts \cup {"none", "TOO_BIG"}]
BY ZenonT(60) DEF ServerInv

\* The first critical section of handle() advances the call whose method it finds.
LEMMA LookupAdvances ==
  ASSUME IInv, ServerInv, UNCHANGED client, NEW q \in requests, D!Lookup(q)
  PROVE  Advances(q.from)
<1>u. UNCHANGED <<moved, pc, id, outcome>>
  BY SMTT(60) DEF client
<1>a. /\ q.from \in Callers /\ pc[q.from] \in {"unsent", "done"} /\ Sent(q)
      /\ result[q.from] = "none" /\ NotRun(q.from)
      /\ \A p \in requests : p.from = q.from => p = q
  BY AtRequest, ZenonT(60)
<1>t. /\ running \subseteq Handlers
      /\ result \in [Callers -> Verdicts \cup {"none", "TOO_BIG"}]
  BY ServerTypes, ZenonT(60)
<1> DEFINE h0 == [req |-> q, threw |-> FALSE]
<1>1. /\ running' = running \cup {h0} /\ requests' = requests \ {q}
      /\ UNCHANGED <<result, responses>>
  BY ZenonT(60) DEF D!Lookup
<1>2. h0.req = q /\ h0.threw = FALSE /\ h0 \in Handlers
  BY ZenonT(60) DEF Handlers, IInv, TypeOK
<1> HIDE DEF h0
<1>3. \A h \in running : h.req.from # q.from
  BY <1>a, ZenonT(60) DEF NotRun
<1>4. \A v \in Verdicts : ~Answered(q.from, v)
  BY <1>a, ZenonT(60) DEF Answered, Verdicts
<1>5. /\ \A p \in requests' : p \in requests /\ p.from # q.from
      /\ running' \subseteq Handlers
  BY <1>a, <1>t, <1>1, <1>2, ZenonT(60)
<1>6. /\ \A h \in running' :
             \/ h \in running /\ h.req.from # q.from
             \/ /\ Sent(h.req) /\ h.req.from = q.from
                /\ result'[q.from] = IF h.threw THEN "INTERNAL" ELSE "none"
      /\ \A g, h \in running' : g.req.from = q.from /\ h.req.from = q.from => g = h
  BY <1>a, <1>1, <1>2, <1>3, ZenonT(60)
<1> QED BY <1>u, <1>a, <1>t, <1>1, <1>4, <1>5, <1>6, ZenonT(60) DEF Advances

\* It advances the call whose method it does not find.
LEMMA UnknownAdvances ==
  ASSUME IInv, ServerInv, UNCHANGED client, NEW q \in requests, D!Unknown(q)
  PROVE  Advances(q.from)
<1>u. UNCHANGED <<moved, pc, id, outcome>>
  BY SMTT(60) DEF client
<1>a. /\ q.from \in Callers /\ pc[q.from] \in {"unsent", "done"} /\ Sent(q)
      /\ result[q.from] = "none" /\ NotRun(q.from)
      /\ \A p \in requests : p.from = q.from => p = q
  BY AtRequest, ZenonT(60)
<1>t. /\ running \subseteq Handlers
      /\ result \in [Callers -> Verdicts \cup {"none", "TOO_BIG"}]
  BY ServerTypes, ZenonT(60)
<1> DEFINE r0 == D!Response(q, "NOT_FOUND")
<1>1. /\ responses' = responses \cup {r0} /\ requests' = requests \ {q}
      /\ result' = [result EXCEPT ![q.from] = "NOT_FOUND"]
      /\ running' = running
  BY ZenonT(60) DEF D!Unknown
<1>2. r0.from = q.from /\ r0.status = "NOT_FOUND"
  BY ZenonT(60) DEF D!Response
<1> HIDE DEF r0
<1>3. \A h \in running : h.req.from # q.from
  BY <1>a, ZenonT(60) DEF NotRun
<1>4. \A v \in Verdicts : ~Answered(q.from, v)
  BY <1>a, ZenonT(60) DEF Answered, Verdicts
<1>5. /\ result' \in [Callers -> Verdicts \cup {"none", "TOO_BIG"}]
      /\ result'[q.from] = "NOT_FOUND"
      /\ \A d \in Callers : d # q.from => result'[d] = result[d]
  BY <1>a, <1>t, <1>1, ZenonT(60) DEF Verdicts
<1>6. \A p \in requests' : p \in requests /\ p.from # q.from
  BY <1>a, <1>1, ZenonT(60)
<1>7. \A r \in responses' :
          \/ r \in responses
          \/ /\ r.from = q.from /\ r.status \in Verdicts /\ r.status = result'[q.from]
             /\ \A h \in running' : h.req.from # q.from
  <2>1. \A r \in responses' : r \in responses \/ r = r0
    BY <1>1, ZenonT(60)
  <2>2. r0.status \in Verdicts /\ r0.status = result'[q.from]
    BY <1>2, <1>5, ZenonT(60) DEF Verdicts
  <2> QED BY <1>1, <1>2, <1>3, <2>1, <2>2, ZenonT(60)
<1> QED BY <1>u, <1>a, <1>t, <1>1, <1>3, <1>4, <1>5, <1>6, <1>7, ZenonT(60) DEF Advances

\* A handler that throws advances its call.
LEMMA ThrowAdvances ==
  ASSUME IInv, ServerInv, UNCHANGED client, NEW h \in running, D!Throw(h)
  PROVE  Advances(h.req.from)
<1>u. UNCHANGED <<moved, pc, id, outcome>>
  BY SMTT(60) DEF client
<1>a. /\ h.req.from \in Callers /\ pc[h.req.from] \in {"unsent", "done"}
      /\ Sent(h.req) /\ ~NotRun(h.req.from)
      /\ \A g \in running : g.req.from = h.req.from => g = h
      /\ \A q \in requests : q.from # h.req.from
      /\ h.threw => result[h.req.from] = "INTERNAL"
  BY AtHandler, ZenonT(60)
<1>t. /\ running \subseteq Handlers
      /\ result \in [Callers -> Verdicts \cup {"none", "TOO_BIG"}]
  BY ServerTypes, ZenonT(60)
<1> DEFINE h1 == [h EXCEPT !.threw = TRUE]
           c == h.req.from
<1>1. /\ running' = (running \ {h}) \cup {h1}
      /\ result' = [result EXCEPT ![c] = "INTERNAL"]
      /\ UNCHANGED <<requests, responses>>
  BY DEF D!Throw
<1>2. h1.req = h.req /\ h1.threw = TRUE /\ h1 \in Handlers
  BY <1>t, ZenonT(60) DEF Handlers
<1> HIDE DEF h1
<1>3. /\ result' \in [Callers -> Verdicts \cup {"none", "TOO_BIG"}]
      /\ result'[c] = "INTERNAL"
      /\ \A d \in Callers : d # c => result'[d] = result[d]
  BY <1>a, <1>t, <1>1, ZenonT(60) DEF Verdicts
<1>4. running' \subseteq Handlers /\ \A v \in Verdicts : ~Answered(c, v)
  BY <1>a, <1>t, <1>1, <1>2, ZenonT(60) DEF Answered
<1>5. \A g \in running' : (g \in running /\ g.req.from # c) \/ g = h1
  BY <1>a, <1>1, ZenonT(60)
<1>6. \A g \in running' :
          \/ g \in running /\ g.req.from # c
          \/ /\ Sent(g.req) /\ g.req.from = c
             /\ result'[c] = IF g.threw THEN "INTERNAL" ELSE "none"
  BY <1>a, <1>2, <1>3, <1>5, ZenonT(60)
<1>7. \A f, g \in running' : f.req.from = c /\ g.req.from = c => f = g
  BY <1>5, ZenonT(60)
<1> HIDE DEF c
<1> QED BY <1>u, <1>a, <1>1, <1>3, <1>4, <1>6, <1>7, ZenonT(60) DEF Advances, c

\* The last critical section advances the call it answers.
LEMMA FinishAdvances ==
  ASSUME IInv, ServerInv, UNCHANGED client, NEW h \in running,
         NEW s \in {"OK", "INTERNAL"}, NEW big \in BOOLEAN, D!Finish(h, s, big)
  PROVE  Advances(h.req.from)
<1>u. UNCHANGED <<moved, pc, id, outcome>>
  BY SMTT(60) DEF client
<1>a. /\ h.req.from \in Callers /\ pc[h.req.from] \in {"unsent", "done"}
      /\ Sent(h.req) /\ ~NotRun(h.req.from)
      /\ \A g \in running : g.req.from = h.req.from => g = h
      /\ \A q \in requests : q.from # h.req.from
      /\ h.threw => result[h.req.from] = "INTERNAL"
  BY AtHandler, ZenonT(60)
<1>t. /\ running \subseteq Handlers
      /\ result \in [Callers -> Verdicts \cup {"none", "TOO_BIG"}]
  BY ServerTypes, ZenonT(60)
<1> DEFINE r0 == D!Response(h.req, s)
           c == h.req.from
<1>1. /\ running' = running \ {h} /\ requests' = requests
      /\ responses' = IF big THEN responses ELSE responses \cup {r0}
      /\ h.threw => s = "INTERNAL" /\ ~big
  BY ZenonT(60) DEF D!Finish, D!Ends
<1>2. r0.from = c /\ r0.status = s
  BY ZenonT(60) DEF D!Response
<1> HIDE DEF r0
<1>3. /\ result' \in [Callers -> Verdicts \cup {"none", "TOO_BIG"}]
      /\ ~big => result'[c] = s
      /\ \A d \in Callers : d # c => result'[d] = result[d]
  BY <1>a, <1>t, <1>1, ZenonT(60) DEF Verdicts, D!Finish
<1>4. running' \subseteq Handlers /\ \A v \in Verdicts : ~Answered(c, v)
  BY <1>a, <1>t, <1>1, ZenonT(60) DEF Answered
<1>5. \A g \in running' : g \in running /\ g.req.from # c
  BY <1>a, <1>1, ZenonT(60)
<1>6. \A r \in responses' :
          \/ r \in responses
          \/ /\ r.from = c /\ r.status \in Verdicts /\ r.status = result'[c]
             /\ \A g \in running' : g.req.from # c
  BY <1>1, <1>2, <1>3, <1>5, ZenonT(60) DEF Verdicts
<1> QED BY <1>u, <1>a, <1>1, <1>3, <1>4, <1>5, <1>6, ZenonT(60) DEF Advances

\* Every step of the composition preserves the invariant of the dispatcher.
LEMMA StepServer ==
  ASSUME IInv, ServerInv, [RpcNext]_rpcVars PROVE ServerInv'
<1>1. CASE ClientNext /\ UNCHANGED <<server, lost>>
  BY <1>1, ClientBenign, BenignServer, ZenonT(60)
<1>2. CASE D!DispatchNext /\ UNCHANGED <<client, lost>>
  <2>1. UNCHANGED client
    BY <1>2, ZenonT(60)
  <2>2. CASE \E m \in Methods : D!register_method(m) \/ D!unregister_method(m)
    BY <2>1, <2>2, WireBenign, BenignServer, ZenonT(60)
  <2>3. ASSUME NEW q \in requests, D!Lookup(q) \/ D!Unknown(q) PROVE ServerInv'
    <3>1. Advances(q.from)
      BY <2>1, <2>3, LookupAdvances, UnknownAdvances, ZenonT(60)
    <3> QED BY <3>1, AdvanceServer, ZenonT(60)
  <2>4. ASSUME NEW h \in running,
               \/ D!Throw(h)
               \/ \E s \in {"OK", "INTERNAL"}, big \in BOOLEAN : D!Finish(h, s, big)
        PROVE  ServerInv'
    <3>1. Advances(h.req.from)
      BY <2>1, <2>4, ThrowAdvances, FinishAdvances, ZenonT(60)
    <3> QED BY <3>1, AdvanceServer, ZenonT(60)
  <2> QED BY <1>2, <2>2, <2>3, <2>4, ZenonT(60) DEF D!DispatchNext
<1>3. CASE \/ \E q \in requests : LoseRequest(q) \/ Garble(q)
           \/ \E r \in responses : LoseResponse(r)
  <2>1. UNCHANGED client
    BY <1>3 DEF LoseRequest, LoseResponse, Garble
  <2> QED BY <1>3, <2>1, WireBenign, BenignServer, ZenonT(60)
<1>4. CASE UNCHANGED rpcVars
  <2>1. Benign
    <3>1. UNCHANGED <<running, result, moved, pc, id, outcome, requests, responses>>
      BY <1>4, ZenonT(60) DEF rpcVars, client, server
    <3> QED BY <3>1, QuietParts, ZenonT(60) DEF Benign
  <2> QED BY <2>1, BenignServer, ZenonT(60)
<1> QED BY <1>1, <1>2, <1>3, <1>4, ZenonT(60) DEF RpcNext

\* What dispatcher and wire do is a step of RpcClient's environment: each answer
\* is to a call that was sent.
LEMMA StepRefines ==
  ASSUME IInv, ServerInv, [RpcNext]_rpcVars PROVE [Next]_vars
<1> DEFINE Quiet == /\ UNCHANGED client /\ requests' \subseteq requests
                    /\ responses' \subseteq responses \cup Replies
<1>0. Quiet => Next
  BY ZenonT(60) DEF Next, Environment
<1>1. ASSUME NEW q, Sent(q), NEW s \in Statuses PROVE D!Response(q, s) \in Replies
  BY <1>1 DEF Sent, Replies, D!Response
<1>2. CASE ClientNext /\ UNCHANGED <<server, lost>>
  BY <1>2 DEF Next
<1>3. CASE D!DispatchNext /\ UNCHANGED <<client, lost>>
  <2>1. ASSUME NEW m \in Methods, D!register_method(m) \/ D!unregister_method(m)
        PROVE  Quiet
    BY <1>3, <2>1, ZenonT(60) DEF D!register_method, D!unregister_method
  <2>2. ASSUME NEW q \in requests, D!Lookup(q) PROVE Quiet
    BY <1>3, <2>2, ZenonT(60) DEF D!Lookup
  <2>3. ASSUME NEW q \in requests, D!Unknown(q) PROVE Quiet
    <3>1. Sent(q) /\ "NOT_FOUND" \in Statuses
      BY DEF ServerInv, Statuses
    <3> QED BY <1>1, <1>3, <2>3, <3>1, ZenonT(60) DEF D!Unknown
  <2>4. ASSUME NEW h \in running, D!Throw(h) PROVE Quiet
    BY <1>3, <2>4, ZenonT(60) DEF D!Throw
  <2>5. ASSUME NEW h \in running, NEW s \in {"OK", "INTERNAL"}, NEW big \in BOOLEAN,
               D!Finish(h, s, big)
        PROVE  Quiet
    <3>1. Sent(h.req) /\ s \in Statuses
      BY DEF ServerInv, Statuses
    <3> QED BY <1>1, <1>3, <2>5, <3>1, ZenonT(60) DEF D!Finish
  <2> HIDE DEF Quiet
  <2>6. Quiet
    BY <1>3, <2>1, <2>2, <2>3, <2>4, <2>5, ZenonT(60) DEF D!DispatchNext
  <2> QED BY <1>0, <2>6, ZenonT(60)
<1>4. ASSUME NEW q \in requests, LoseRequest(q) \/ Garble(q) PROVE Quiet
  BY <1>4, SMTT(60) DEF LoseRequest, Garble, D!HandleMalformed, Replies
<1>5. ASSUME NEW r \in responses, LoseResponse(r) PROVE Quiet
  BY <1>5, ZenonT(60) DEF LoseResponse
<1>6. CASE UNCHANGED rpcVars
  BY <1>6 DEF rpcVars, vars
<1> HIDE DEF Quiet
<1> QED BY <1>0, <1>2, <1>3, <1>4, <1>5, <1>6, ZenonT(60) DEF RpcNext

RpcIInv == IInv /\ IsFiniteSet(pending) /\ StatsBalance /\ ServerInv

\* The invariant of the composition holds at the start.
LEMMA InitRpc == RpcInit => RpcIInv
<1> SUFFICES ASSUME RpcInit PROVE RpcIInv
  BY ZenonT(60)
<1>1. Init /\ pending = {}
  BY ZenonT(60) DEF RpcInit, Init
<1>2. IsFiniteSet(pending) /\ StatsBalance
  BY <1>1, FS_EmptySet, SMTT(60) DEF Init, StatsBalance
<1> QED BY <1>1, <1>2, InitIInv, InitServer, ZenonT(60) DEF RpcIInv

\* Every step preserves it and is a step of RpcClient.
LEMMA StepRpc == RpcIInv /\ [RpcNext]_rpcVars => RpcIInv' /\ [Next]_vars
<1> SUFFICES ASSUME RpcIInv, [RpcNext]_rpcVars PROVE RpcIInv' /\ [Next]_vars
  OBVIOUS
<1>1. ServerInv' /\ [Next]_vars
  BY StepServer, StepRefines, ZenonT(60) DEF RpcIInv
<1>2. IInv' /\ IsFiniteSet(pending') /\ StatsBalance'
  BY <1>1, StepIInv, StepBalance, ZenonT(60) DEF RpcIInv
<1> QED BY <1>1, <1>2, ZenonT(60) DEF RpcIInv

\* RpcDispatcher and the wire are an environment that RpcClient allows, for any
\* callers, ids and methods: what is proved of rpc_client.cpp alone holds of it
\* with rpc_dispatcher.cpp at the other end.
THEOREM RpcRefinesClient == RpcSpec => ImplementsClient
<1>1. RpcInit => Init
  BY DEF RpcInit
<1>2. RpcInit => RpcIInv
  BY InitRpc, ZenonT(60)
<1>3. RpcIInv /\ [RpcNext]_rpcVars => RpcIInv' /\ [Next]_vars
  BY StepRpc
<1> QED BY <1>1, <1>2, <1>3, PTL DEF RpcSpec, ImplementsClient, Spec

\* A future yields what handle() did for its own call, a response resolves the
\* call it answers and no other, and the counters of the client add up, whatever
\* the wire loses, delays or repeats and however handlers overlap.
THEOREM FuturesTruthful == RpcSpec => []RepliesRight
<1>1. RpcInit => RpcIInv
  BY InitRpc
<1>2. RpcIInv /\ [RpcNext]_rpcVars => RpcIInv'
  BY StepRpc
<1>3. RpcIInv => RepliesRight
  <2> SUFFICES ASSUME RpcIInv PROVE RepliesRight
    BY ZenonT(60)
  <2>1. OutcomeTruthful
    BY DEF RpcIInv, ServerInv, OutcomeTruthful, Verdicts, Answered
  <2>2. TypeOK /\ ReplyMatchesCall /\ StatsBalance
    BY Zenon DEF RpcIInv, IInv
  <2> QED BY <2>1, <2>2 DEF RepliesRight
<1> QED BY <1>1, <1>2, <1>3, PTL DEF RpcSpec
===============================================================================
