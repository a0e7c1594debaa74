--------------------------- MODULE SessionsProofs ---------------------------
(***************************************************************************)
(* What Sessions promises, for every number of requests and every size of  *)
(* the pool.                                                               *)
(***************************************************************************)
EXTENDS Sessions, FiniteSetTheorems, TLAPS

USE PoolAssumption

(* Who holds a connection; whose transaction holds the row *)
Holds(c) ==
  /\ call[c].pc \in Waiting \cup {"idle"} => call[c].conn = "none"
  /\ call[c].pc \in Working => call[c].conn # "none"
  /\ row = c => At(c, "commit")

(* What is known of a request that was given up on *)
Told(c) ==
  LET q == call[c] IN
  /\ q.pc \in {"idle", "queued", "reading", "locking"} => ~committed[c]
  /\ q.pc = "commit" /\ committed[c] => q.conn = "dead"
  /\ q.pc \in {"requeued", "rereading"} => committed[c] /\ q.kind = "rewrite"
  /\ q.pc \in Working /\ q.conn = "dead" => lost[c]
  /\ q.pc \in Waiting \cup Working /\ ~up => lost[c]

IInv ==
  /\ TypeOK /\ ConnectionsBounded
  /\ \A c \in Calls : Holds(c) /\ Told(c)

-----------------------------------------------------------------------------
LEMMA FiniteHolding == IsFiniteSet(Holding) /\ Cardinality(Holding) \in Nat
<1>1. Holding \subseteq Calls
  BY DEF Holding
<1>2. QED
  BY <1>1, FS_Subset, FS_CardinalityType

LEMMA InitInv == Init => IInv
<1>1. SUFFICES ASSUME Init PROVE IInv
  OBVIOUS
<1>2. Holding = {}
  BY <1>1 DEF Init, Holding
<1>3. ConnectionsBounded
  BY <1>1, <1>2, FS_EmptySet DEF Init, ConnectionsBounded, Limit
<1>4. TypeOK
  BY <1>1 DEF Init, TypeOK, CallState, Kinds
<1>5. \A c \in Calls : Holds(c) /\ Told(c)
  BY <1>1 DEF Init, Holds, Told, Waiting, Working
<1>6. QED
  BY <1>3, <1>4, <1>5 DEF IInv

(* A step of one call that leaves the other calls and the row alone, or    *)
(* frees it.                                                               *)
LEMMA OneCall ==
  ASSUME IInv, NEW c \in Calls, TypeOK', ConnectionsBounded', up' = up,
         \A d \in Calls \ {c} : /\ call'[d] = call[d] /\ lost'[d] = lost[d]
                                /\ committed'[d] = committed[d],
         row' \in {row, c, NoCall},
         Holds(c)', Told(c)'
  PROVE  IInv'
<1>1. ASSUME NEW d \in Calls \ {c} PROVE Holds(d)' /\ Told(d)'
  <2>1. Holds(d) /\ Told(d)
    BY DEF IInv
  <2>2. QED
    BY <2>1 DEF Holds, Told, At
<1>2. QED
  BY <1>1 DEF IInv

(* Nobody takes or gives back a connection.                                *)
LEMMA SameHolding ==
  ASSUME IInv, pooled' = pooled,
         \A d \in Calls : (call'[d].conn = "none") <=> (call[d].conn = "none")
  PROVE  ConnectionsBounded'
<1>1. Holding' = Holding
  BY DEF Holding
<1>2. QED
  BY <1>1 DEF IInv, ConnectionsBounded

LEMMA GivenBack ==
  ASSUME IInv, NEW c \in Calls, GiveBack(c), call'[c].conn = "none",
         \A d \in Calls \ {c} : call'[d] = call[d]
  PROVE  ConnectionsBounded' /\ pooled' \in Nat /\ stale' \in 0..pooled'
         /\ row' \in {row, NoCall} /\ row' # c /\ up' = up
<1>1. Holding' = Holding \ {c}
  BY DEF Holding
<1>2. Cardinality(Holding \ {c}) = IF c \in Holding THEN Cardinality(Holding) - 1
                                                   ELSE Cardinality(Holding)
  BY FiniteHolding, FS_RemoveElement
<1>3. pooled \in Nat /\ stale \in 0..pooled /\ pooled <= PoolSize
      /\ pooled + Cardinality(Holding) <= Limit
  BY DEF IInv, TypeOK, ConnectionsBounded
<1>4. pooled' = (IF c \in Holding /\ pooled < PoolSize THEN pooled + 1 ELSE pooled)
      /\ stale' = stale
  BY DEF GiveBack
<1>5. ConnectionsBounded'
  BY <1>1, <1>2, <1>3, <1>4, FiniteHolding DEF ConnectionsBounded, Limit
<1>6. QED
  BY <1>3, <1>4, <1>5 DEF GiveBack

-----------------------------------------------------------------------------
(* Steps that take and give back no connection *)
LEMMA ArriveKeeps ==
  ASSUME IInv, NEW c \in Calls, NEW kind \in Kinds, Arrive(c, kind) PROVE IInv'
<1>1. TypeOK /\ Holds(c) /\ Told(c)
  BY DEF IInv
<1>2. /\ call' = [call EXCEPT ![c].pc = "queued", ![c].kind = kind]
      /\ lost' = [lost EXCEPT ![c] = ~up]
      /\ call[c].pc = "idle"
      /\ UNCHANGED <<up, pooled, stale, row, committed>>
  BY DEF Arrive
<1>3. call'[c] = [call[c] EXCEPT !.pc = "queued", !.kind = kind] /\ lost'[c] = ~up
  BY <1>1, <1>2 DEF TypeOK
<1>4. TypeOK'
  BY <1>1, <1>2 DEF TypeOK, CallState, Waiting, Working, Ending
<1>5. ConnectionsBounded'
  BY <1>1, <1>2, <1>3, SameHolding DEF TypeOK, CallState
<1>6. Holds(c)' /\ Told(c)'
  BY <1>1, <1>2, <1>3 DEF Holds, Told, At, TypeOK, CallState, Waiting, Working
<1>7. \A d \in Calls \ {c} : /\ call'[d] = call[d] /\ lost'[d] = lost[d]
                             /\ committed'[d] = committed[d]
  BY <1>1, <1>2 DEF TypeOK
<1>8. QED
  BY <1>2, <1>4, <1>5, <1>6, <1>7, OneCall

(* A request that is answered keeps what it holds. *)
LEMMA RespondKeeps ==
  ASSUME IInv, NEW c \in Calls, NEW pc \in Ending, Respond(c, pc),
         row = c => FALSE
  PROVE  IInv'
<1>1. TypeOK /\ Holds(c) /\ Told(c)
  BY DEF IInv
<1>2. /\ call' = [call EXCEPT ![c] = [pc |-> pc, kind |-> "read", conn |-> call[c].conn]]
      /\ lost' = [lost EXCEPT ![c] = FALSE]
      /\ UNCHANGED <<up, pooled, stale, row, committed>>
  BY DEF Respond, Ends
<1>3. call'[c] = [pc |-> pc, kind |-> "read", conn |-> call[c].conn]
  BY <1>1, <1>2 DEF TypeOK
<1>4. TypeOK'
  BY <1>1, <1>2 DEF TypeOK, CallState, Kinds
<1>5. ConnectionsBounded'
  BY <1>1, <1>2, <1>3, SameHolding DEF TypeOK
<1>6. Holds(c)' /\ Told(c)'
  BY <1>1, <1>2, <1>3 DEF Holds, Told, At, Waiting, Working, Ending
<1>7. \A d \in Calls \ {c} : /\ call'[d] = call[d] /\ lost'[d] = lost[d]
                             /\ committed'[d] = committed[d]
  BY <1>1, <1>2 DEF TypeOK
<1>8. QED
  BY <1>2, <1>4, <1>5, <1>6, <1>7, OneCall

LEMMA ReadKeeps == ASSUME IInv, NEW c \in Calls, Read(c) PROVE IInv'
<1>1. TypeOK /\ Holds(c) /\ Told(c) /\ At(c, "reading")
  BY DEF IInv, Read
<1>2. row # c
  BY <1>1 DEF Holds, At
<1>3. CASE Respond(c, "refusing") \/ Respond(c, "answering")
  BY <1>2, <1>3, RespondKeeps DEF Ending
<1>4. ASSUME NEW pc \in {"locking", "commit"}, Goto(c, pc) PROVE IInv'
  <2>1. /\ call' = [call EXCEPT ![c].pc = pc]
        /\ UNCHANGED <<up, pooled, stale, row, committed, lost>>
    BY <1>4 DEF Goto
  <2>2. call'[c] = [call[c] EXCEPT !.pc = pc]
    BY <1>1, <2>1 DEF TypeOK
  <2>3. TypeOK'
    BY <1>1, <2>1 DEF TypeOK, CallState, Working
  <2>4. ConnectionsBounded'
    BY <1>1, <2>1, <2>2, SameHolding DEF TypeOK, CallState
  <2>5. Holds(c)' /\ Told(c)'
    BY <1>1, <1>2, <2>1, <2>2 DEF Holds, Told, At, TypeOK, CallState, Waiting, Working
  <2>6. QED
    BY <2>1, <2>3, <2>4, <2>5, OneCall
<1>5. QED
  BY <1>3, <1>4 DEF Read

LEMMA LockKeeps == ASSUME IInv, NEW c \in Calls, Lock(c) PROVE IInv'
<1>1. TypeOK /\ Holds(c) /\ Told(c)
  BY DEF IInv
<1>2. /\ At(c, "locking") /\ row' = c
      /\ call' = [call EXCEPT ![c].pc = "commit"]
      /\ UNCHANGED <<up, pooled, stale, committed, lost>>
  BY DEF Lock
<1>3. call'[c] = [call[c] EXCEPT !.pc = "commit"]
  BY <1>1, <1>2 DEF TypeOK
<1>4. TypeOK'
  BY <1>1, <1>2 DEF TypeOK, CallState, Working
<1>5. ConnectionsBounded'
  BY <1>1, <1>2, <1>3, SameHolding DEF TypeOK, CallState
<1>6. Holds(c)' /\ Told(c)'
  BY <1>1, <1>2, <1>3 DEF Holds, Told, At, TypeOK, CallState, Waiting, Working
<1>7. QED
  BY <1>2, <1>4, <1>5, <1>6, OneCall

-----------------------------------------------------------------------------
(* Steps that take a connection, or give one back *)
LEMMA TakeKeeps == ASSUME IInv, NEW c \in Calls, Take(c) PROVE IInv'
<1>1. TypeOK /\ Holds(c) /\ Told(c) /\ ConnectionsBounded
  BY DEF IInv
<1>2. /\ up /\ call[c].pc \in Waiting
      /\ TakeFrom(pooled, stale)
      /\ call' = [call EXCEPT ![c].pc = IF @ = "queued" THEN "reading" ELSE "rereading",
                              ![c].conn = "live"]
      /\ UNCHANGED <<up, row, committed, lost>>
  BY DEF Take
<1>3. call'[c] = [call[c] EXCEPT !.pc = IF @ = "queued" THEN "reading" ELSE "rereading",
                                 !.conn = "live"]
  BY <1>1, <1>2 DEF TypeOK
<1>4. call[c].conn = "none"
  BY <1>1, <1>2 DEF Holds
<1>5. Holding' = Holding \cup {c}
  BY <1>1, <1>2, <1>3 DEF Holding, TypeOK, CallState
<1>6. c \notin Holding
  BY <1>4 DEF Holding
<1>7. Cardinality(Holding') = Cardinality(Holding) + 1
  BY <1>5, <1>6, FiniteHolding, FS_AddElement
<1>8. pooled' \in Nat /\ stale' \in 0..pooled' /\ ConnectionsBounded'
  BY <1>1, <1>2, <1>7, FiniteHolding DEF TypeOK, TakeFrom, ConnectionsBounded, Limit
<1>9. TypeOK'
  <2>1. call'[c] \in CallState
    <3>1. call[c] \in CallState
      BY <1>1 DEF TypeOK
    <3>2. CASE call[c].pc = "queued"
      BY <1>3, <3>1, <3>2 DEF CallState, Working
    <3>3. CASE call[c].pc # "queued"
      BY <1>3, <3>1, <3>3 DEF CallState, Working
    <3>4. QED
      BY <3>2, <3>3
  <2>2. call' = [d \in Calls |-> IF d = c THEN call'[c] ELSE call[d]]
    BY <1>1, <1>2, <1>3 DEF TypeOK
  <2>3. call' \in [Calls -> CallState]
    BY <1>1, <2>1, <2>2 DEF TypeOK
  <2>4. QED
    BY <1>1, <1>2, <1>8, <2>3 DEF TypeOK
<1>10. Holds(c)' /\ Told(c)'
  BY <1>1, <1>2, <1>3 DEF Holds, Told, At, TypeOK, CallState, Waiting, Working
<1>11. \A d \in Calls \ {c} : /\ call'[d] = call[d] /\ lost'[d] = lost[d]
                             /\ committed'[d] = committed[d]
  BY <1>1, <1>2 DEF TypeOK
<1>12. QED
  BY <1>2, <1>8, <1>9, <1>10, <1>11, OneCall

(* The session is closed: for an answer, or for good. *)
LEMMA EndKeeps ==
  ASSUME IInv, NEW c \in Calls, NEW pc \in Ending \cup {"idle"},
         GiveBack(c), Ends(c, pc, "none"),
         committed' \in [Calls -> BOOLEAN],
         \A d \in Calls \ {c} : committed'[d] = committed[d],
         pc = "idle" => ~committed'[c]
  PROVE  IInv'
<1>1. TypeOK
  BY DEF IInv
<1>2. /\ call' = [call EXCEPT ![c] = [pc |-> pc, kind |-> "read", conn |-> "none"]]
      /\ lost' = [lost EXCEPT ![c] = FALSE]
  BY DEF Ends
<1>3. call'[c] = [pc |-> pc, kind |-> "read", conn |-> "none"]
      /\ \A d \in Calls \ {c} : call'[d] = call[d] /\ lost'[d] = lost[d]
  BY <1>1, <1>2 DEF TypeOK
<1>4. ConnectionsBounded' /\ pooled' \in Nat /\ stale' \in 0..pooled'
      /\ row' \in {row, NoCall} /\ row' # c /\ up' = up
  BY <1>3, GivenBack
<1>5. TypeOK'
  BY <1>1, <1>2, <1>4 DEF TypeOK, CallState, Kinds
<1>6. Holds(c)' /\ Told(c)'
  BY <1>3, <1>4 DEF Holds, Told, Waiting, Working, Ending
<1>7. QED
  BY <1>3, <1>4, <1>5, <1>6, OneCall

LEMMA CommitKeeps == ASSUME IInv, NEW c \in Calls, Commit(c) PROVE IInv'
<1>1. TypeOK /\ Holds(c) /\ Told(c)
  BY DEF IInv
<1>2. At(c, "commit") /\ GiveBack(c)
      /\ committed' = [committed EXCEPT ![c] = TRUE]
  BY DEF Commit
<1>3. committed' \in [Calls -> BOOLEAN] /\ committed'[c]
      /\ \A d \in Calls \ {c} : committed'[d] = committed[d]
  BY <1>1, <1>2 DEF TypeOK
<1>4. CASE call[c].kind # "rewrite"
  BY <1>2, <1>3, <1>4, EndKeeps DEF Commit, Ending
<1>5. CASE call[c].kind = "rewrite"
  <2>1. call' = [call EXCEPT ![c].pc = "requeued", ![c].conn = "none"]
        /\ UNCHANGED lost
    BY <1>5 DEF Commit
  <2>2. call'[c] = [call[c] EXCEPT !.pc = "requeued", !.conn = "none"]
        /\ \A d \in Calls \ {c} : call'[d] = call[d]
    BY <1>1, <2>1 DEF TypeOK
  <2>3. call'[c].conn = "none" /\ call'[c].pc = "requeued" /\ call'[c].kind = "rewrite"
    BY <1>1, <1>5, <2>2 DEF TypeOK, CallState
  <2>4. ConnectionsBounded' /\ pooled' \in Nat /\ stale' \in 0..pooled'
        /\ row' \in {row, NoCall} /\ row' # c /\ up' = up
    BY <1>2, <2>2, <2>3, GivenBack
  <2>5. TypeOK'
    <3>1. call[c] \in CallState
      BY <1>1 DEF TypeOK
    <3>2. call'[c] \in CallState
      BY <2>2, <3>1 DEF CallState, Waiting
    <3>3. call' = [d \in Calls |-> IF d = c THEN call'[c] ELSE call[d]]
      BY <1>1, <2>1, <2>2 DEF TypeOK
    <3>4. call' \in [Calls -> CallState]
      BY <1>1, <3>2, <3>3 DEF TypeOK
    <3>5. QED
      BY <1>1, <1>3, <2>1, <2>4, <3>4 DEF TypeOK
  <2>6. ~up => lost[c]
    BY <1>1, <1>2 DEF Told, At, Working
  <2>7. Holds(c)' /\ Told(c)'
    BY <1>3, <2>1, <2>3, <2>4, <2>6 DEF Holds, Told, Waiting, Working
  <2>8. QED
    BY <1>3, <2>1, <2>2, <2>4, <2>5, <2>7, OneCall
<1>6. QED
  BY <1>4, <1>5

LEMMA CloseKeeps ==
  ASSUME IInv, NEW c \in Calls, Conflict(c) \/ Fail(c) \/ Close(c) \/ Abandon(c)
  PROVE  IInv'
<1>1. TypeOK
  BY DEF IInv
<1>2. CASE Conflict(c)
  BY <1>1, <1>2, EndKeeps DEF Conflict, Ending, TypeOK
<1>3. CASE Fail(c)
  BY <1>1, <1>3, EndKeeps DEF Fail, Ending, TypeOK
<1>4. CASE Leave(c)
  <2>1. committed' = [committed EXCEPT ![c] = FALSE]
    BY <1>4 DEF Leave
  <2>2. committed' \in [Calls -> BOOLEAN] /\ ~committed'[c]
        /\ \A d \in Calls \ {c} : committed'[d] = committed[d]
    BY <1>1, <2>1 DEF TypeOK
  <2>3. QED
    BY <1>4, <2>2, EndKeeps DEF Leave
<1>5. QED
  BY <1>2, <1>3, <1>4 DEF Close, Abandon

-----------------------------------------------------------------------------
(* Connections are lost: they stay checked out until their sessions end. *)
LEMMA BreaksKeeps ==
  ASSUME IInv, NEW S \in SUBSET Calls, Breaks(S), pooled' = pooled,
         stale' \in 0..pooled, up' \in BOOLEAN, up' = up \/ (~up' /\ S = Calls)
  PROVE  IInv'
<1>1. TypeOK
  BY DEF IInv
<1>2. PICK T \in SUBSET {c \in S : At(c, "commit")} :
        committed' = [c \in Calls |-> committed[c] \/ c \in T]
  BY DEF Breaks
<1>3. /\ call' = [c \in Calls |-> IF c \in S /\ call[c].conn = "live"
                                    THEN [call[c] EXCEPT !.conn = "dead"] ELSE call[c]]
      /\ row' = IF row \in S THEN NoCall ELSE row
      /\ lost' = [c \in Calls |->
                    lost[c] \/ (c \in S /\ call[c].pc \in Waiting \cup Working)]
  BY DEF Breaks
<1>4. TypeOK'
  <2>1. \A d \in Calls : call'[d] \in CallState
    BY <1>1, <1>3 DEF TypeOK, CallState
  <2>2. call' \in [Calls -> CallState]
    BY <1>3, <2>1
  <2>3. row' \in Calls \cup {NoCall}
    BY <1>1, <1>3 DEF TypeOK
  <2>4. committed' \in [Calls -> BOOLEAN] /\ lost' \in [Calls -> BOOLEAN]
    BY <1>2, <1>3, Zenon
  <2>5. QED
    BY <1>1, <2>2, <2>3, <2>4 DEF TypeOK
<1>5. ConnectionsBounded'
  BY <1>1, <1>3, SameHolding DEF TypeOK, CallState
<1>6. ASSUME NEW d \in Calls PROVE Holds(d)' /\ Told(d)'
  <2>1. Holds(d) /\ Told(d) /\ call[d] \in CallState
    BY <1>1 DEF IInv, TypeOK
  <2>2. call'[d].pc = call[d].pc /\ call'[d].kind = call[d].kind
        /\ (call'[d].conn = "none" <=> call[d].conn = "none")
        /\ (d \notin S => call'[d] = call[d])
    BY <1>3, <2>1 DEF CallState
  <2>3. committed'[d] => committed[d] \/ d \in T
    BY <1>2, Zenon
  <2>4. committed[d] => committed'[d]
    BY <1>2, Zenon
  <2>5. d \in T => call[d].pc = "commit" /\ call'[d].conn = "dead"
    BY <1>3, <2>1 DEF At, CallState
  <2>6. call'[d].conn = "dead" => call[d].conn = "dead" \/ d \in S
    BY <1>3
  <2>7. call[d].conn = "dead" => call'[d].conn = "dead"
    BY <1>3
  <2>8. lost[d] => lost'[d]
    BY <1>3, Zenon
  <2>9. d \in S /\ call[d].pc \in Waiting \cup Working => lost'[d]
    BY <1>3, Zenon
  <2>10. ~up' => ~up \/ d \in S
    OBVIOUS
  <2>11. row' = d => row = d /\ d \notin S
    BY <1>3
  <2>12. Holds(d)'
    BY <2>1, <2>2, <2>11 DEF Holds, At
  <2>13. Told(d)'
    BY <2>1, <2>2, <2>3, <2>4, <2>5, <2>6, <2>7, <2>8, <2>9, <2>10
    DEF Told, Waiting, Working
  <2>14. QED
    BY <2>12, <2>13
<1>7. QED
  BY <1>4, <1>5, <1>6 DEF IInv

LEMMA RestartKeeps == ASSUME IInv, Restart PROVE IInv'
<1>1. up' = TRUE /\ UNCHANGED <<pooled, stale, row, call, committed, lost>>
  BY DEF Restart
<1>2. QED
  BY <1>1 DEF IInv, TypeOK, ConnectionsBounded, Holding, Holds, Told, At

LEMMA StepKeeps == IInv /\ [Next]_vars => IInv'
<1>1. SUFFICES ASSUME IInv, [Next]_vars PROVE IInv'
  OBVIOUS
<1>2. CASE UNCHANGED vars
  BY <1>1, <1>2 DEF vars, IInv, TypeOK, ConnectionsBounded, Holding, Holds, Told, At
<1>3. CASE Crash
  <2>1. Breaks(Calls) /\ pooled' = pooled /\ ~up' /\ up' \in BOOLEAN
    BY <1>3 DEF Crash
  <2>2. stale' \in 0..pooled
    BY <1>1, <1>3 DEF Crash, IInv, TypeOK
  <2>3. Calls \in SUBSET Calls
    OBVIOUS
  <2>4. QED
    BY <1>1, <2>1, <2>2, <2>3, BreaksKeeps
<1>4. CASE Restart
  BY <1>1, <1>4, RestartKeeps
<1>5. ASSUME NEW c \in Calls, NEW kind \in Kinds, Arrive(c, kind) PROVE IInv'
  BY <1>1, <1>5, ArriveKeeps
<1>6. ASSUME NEW c \in Calls, Break(c) PROVE IInv'
  <2>1. Breaks({c}) /\ UNCHANGED <<up, pooled, stale>> /\ {c} \in SUBSET Calls
        /\ up \in BOOLEAN /\ stale \in 0..pooled
    BY <1>1, <1>6 DEF Break, IInv, TypeOK
  <2>2. QED
    BY <1>1, <2>1, BreaksKeeps
<1>7. ASSUME NEW c \in Calls, Proceed(c) PROVE IInv'
  <2>1. Holds(c)
    BY <1>1 DEF IInv
  <2>2. CASE TimeOut(c) \/ Unreachable(c)
    <3>1. Respond(c, "failing") /\ row # c
      BY <1>1, <2>1, <2>2 DEF TimeOut, Unreachable, Holds, At, Waiting
    <3>2. QED
      BY <1>1, <3>1, RespondKeeps DEF Ending
  <2>3. CASE Reread(c)
    <3>1. Respond(c, "answering") /\ row # c
      BY <1>1, <2>1, <2>3 DEF Reread, Holds, At
    <3>2. QED
      BY <1>1, <3>1, RespondKeeps DEF Ending
  <2>4. QED
    BY <1>1, <1>7, <2>2, <2>3, TakeKeeps, ReadKeeps, CommitKeeps, CloseKeeps DEF Proceed
<1>8. QED
  BY <1>1, <1>2, <1>3, <1>4, <1>5, <1>6, <1>7, LockKeeps, CloseKeeps DEF Next

LEMMA Invariance == Spec => []IInv
BY InitInv, StepKeeps, PTL DEF Spec

-----------------------------------------------------------------------------
(* The state keeps its types: no more idle connections are closed ones     *)
(* than there are idle ones.                                               *)
THEOREM TypeCorrect == Spec => []TypeOK
<1>1. IInv => TypeOK
  BY DEF IInv
<1>2. QED
  BY <1>1, Invariance, PTL

(* create_async_engine: whatever fails, no more connections are open than  *)
(* the pool and its overflow allow, and no more than PoolSize stay idle.   *)
THEOREM PoolIsBounded == Spec => []ConnectionsBounded
<1>1. IInv => ConnectionsBounded
  BY DEF IInv
<1>2. QED
  BY <1>1, Invariance, PTL

(* Who holds the row is at its COMMIT, connection and all; who holds a     *)
(* connection does not queue for another.  So somebody can always go on.   *)
THEOREM SomebodyGoesOn == Spec => []NobodyWaitsForNothing
<1>1. ASSUME IInv PROVE NobodyWaitsForNothing
  <2>1. SUFFICES ASSUME NEW c \in Calls, Blocked(c)
                 PROVE  \E d \in Calls : call[d].conn # "none" /\ ~Blocked(d)
    BY DEF NobodyWaitsForNothing
  <2>2. TypeOK /\ \A d \in Calls : Holds(d)
    BY <1>1 DEF IInv
  <2>3. CASE row # NoCall
    <3>1. row \in Calls /\ At(row, "commit")
      BY <2>2, <2>3 DEF TypeOK, Holds
    <3>2. ~Blocked(row) /\ call[row].conn # "none"
      BY <3>1 DEF Blocked, At, Waiting
    <3>3. QED
      BY <3>1, <3>2
  <2>4. CASE row = NoCall
    <3>1. Full
      BY <2>1, <2>4 DEF Blocked
    <3>2. Holding # {}
      <4>1. Cardinality(Holding) >= Limit /\ Limit \in Nat /\ Limit > 0
        BY <3>1 DEF Full, Limit
      <4>2. QED
        BY <4>1, FS_EmptySet
    <3>3. PICK d \in Holding : TRUE
      BY <3>2
    <3>4. d \in Calls /\ call[d].conn # "none"
      BY <3>3 DEF Holding
    <3>5. ~Blocked(d)
      BY <2>2, <2>4, <3>4 DEF Blocked, Holds
    <3>6. QED
      BY <3>4, <3>5
  <2>5. QED
    BY <2>3, <2>4
<1>2. QED
  BY <1>1, Invariance, PTL

-----------------------------------------------------------------------------
(* A request goes on by steps of its own only.                             *)
LEMMA Mine ==
  ASSUME IInv, NEW c \in Calls, NEW d \in Calls \ {c},
         Proceed(d) \/ Lock(d) \/ Conflict(d) \/ Abandon(d)
  PROVE  call'[c] = call[c]
<1>1. call \in [Calls -> CallState]
  BY DEF IInv, TypeOK
<1>2. ASSUME NEW pc, Respond(d, pc) PROVE call'[c] = call[c]
  BY <1>1, <1>2 DEF Respond, Ends
<1>3. ASSUME NEW pc, Ends(d, pc, "none") PROVE call'[c] = call[c]
  BY <1>1, <1>3 DEF Ends
<1>4. ASSUME NEW pc, Goto(d, pc) PROVE call'[c] = call[c]
  BY <1>1, <1>4 DEF Goto
<1>5. CASE Take(d) \/ Lock(d)
  BY <1>1, <1>5 DEF Take, Lock
<1>6. CASE TimeOut(d) \/ Unreachable(d) \/ Read(d) \/ Reread(d)
  BY <1>2, <1>4, <1>6 DEF TimeOut, Unreachable, Read, Reread
<1>7. CASE Commit(d)
  <2>1. CASE call[d].kind = "rewrite"
    BY <1>1, <1>7, <2>1 DEF Commit
  <2>2. CASE call[d].kind # "rewrite"
    BY <1>3, <1>7, <2>2 DEF Commit
  <2>3. QED
    BY <2>1, <2>2
<1>8. CASE Conflict(d) \/ Fail(d) \/ Close(d) \/ Abandon(d)
  BY <1>3, <1>8 DEF Conflict, Fail, Close, Abandon, Leave
<1>9. QED
  BY <1>5, <1>6, <1>7, <1>8 DEF Proceed

LEMMA OwnStep ==
  ASSUME IInv, [Next]_vars, NEW c \in Calls, call'[c].pc # call[c].pc
  PROVE  \/ \E kind \in Kinds : Arrive(c, kind)
         \/ Proceed(c) \/ Lock(c) \/ Conflict(c) \/ Abandon(c)
<1>1. call \in [Calls -> CallState]
  BY DEF IInv, TypeOK
<1>2. ASSUME NEW S \in SUBSET Calls, Breaks(S) PROVE FALSE
  BY <1>1, <1>2 DEF Breaks, CallState
<1>3. CASE UNCHANGED vars
  BY <1>3 DEF vars
<1>4. ASSUME NEW d \in Calls PROVE ~Break(d)
  <2>1. {d} \in SUBSET Calls
    OBVIOUS
  <2>2. QED
    BY <1>2, <2>1 DEF Break
<1>5. ~Crash
  <2>1. Calls \in SUBSET Calls
    OBVIOUS
  <2>2. QED
    BY <1>2, <2>1 DEF Crash
<1>6. ~Restart
  BY DEF Restart
<1>7. ASSUME NEW d \in Calls \ {c}, NEW kind \in Kinds, Arrive(d, kind) PROVE FALSE
  BY <1>1, <1>7 DEF Arrive
<1>8. QED
  BY <1>3, <1>4, <1>5, <1>6, <1>7, Mine DEF Next

(* What the state of a request says of its COMMIT, and what its answer     *)
(* then says to the client.                                                *)
LEMMA AnswerIsTrue ==
  ASSUME IInv, [Next]_vars, NEW c \in Calls, call'[c].pc # call[c].pc
  PROVE  /\ call'[c].pc = "answering" /\ call[c].kind # "read" => committed'[c]
         /\ call'[c].pc = "refusing" => ~committed'[c]
         /\ call'[c].pc = "failing" /\ committed'[c] => lost[c] \/ call[c].kind = "rewrite"
<1>1. TypeOK /\ Told(c) /\ Holds(c)
  BY DEF IInv
<1>2. ASSUME NEW pc, Respond(c, pc)
      PROVE  call'[c].pc = pc /\ committed' = committed
  BY <1>1, <1>2 DEF Respond, Ends, TypeOK
<1>3. ASSUME NEW pc, Ends(c, pc, "none") PROVE call'[c].pc = pc
  BY <1>1, <1>3 DEF Ends, TypeOK
<1>4. CASE \E kind \in Kinds : Arrive(c, kind)
  BY <1>1, <1>4 DEF Arrive, TypeOK, CallState
<1>5. CASE Take(c) \/ Lock(c)
  BY <1>1, <1>5 DEF Take, Lock, TypeOK, CallState
<1>6. CASE TimeOut(c) \/ Unreachable(c)
  BY <1>1, <1>2, <1>6 DEF TimeOut, Unreachable, Told, Waiting
<1>7. CASE Read(c)
  <2>1. ~committed[c]
    BY <1>1, <1>7 DEF Read, At, Told
  <2>2. CASE Respond(c, "refusing")
    BY <1>2, <2>1, <2>2
  <2>3. CASE call[c].kind = "read" /\ Respond(c, "answering")
    BY <1>2, <2>3
  <2>4. CASE \E pc \in {"locking", "commit"} : Goto(c, pc)
    BY <1>1, <2>4 DEF Goto, TypeOK, CallState
  <2>5. QED
    BY <1>7, <2>2, <2>3, <2>4 DEF Read
<1>8. CASE Reread(c)
  BY <1>1, <1>2, <1>8 DEF Reread, At, Told
<1>9. CASE Commit(c)
  <2>1. committed'[c]
    BY <1>1, <1>9 DEF Commit, TypeOK
  <2>2. CASE call[c].kind = "rewrite"
    BY <1>1, <1>9, <2>2 DEF Commit, TypeOK, CallState
  <2>3. CASE call[c].kind # "rewrite"
    BY <1>3, <1>9, <2>1, <2>3 DEF Commit
  <2>4. QED
    BY <2>2, <2>3
<1>10. CASE Fail(c)
  BY <1>1, <1>3, <1>10 DEF Fail, Told
<1>11. CASE Conflict(c)
  BY <1>1, <1>3, <1>11 DEF Conflict, At, Told
<1>12. CASE Close(c) \/ Abandon(c)
  BY <1>3, <1>12 DEF Close, Abandon, Leave
<1>13. QED
  BY <1>4, <1>5, <1>6, <1>7, <1>8, <1>9, <1>10, <1>11, <1>12, OwnStep DEF Proceed

(* The endpoints: a 2xx is answered for what was committed, a 4xx for what *)
(* was not; a 500 for a committed write only by an endpoint that reads it  *)
(* back, or when the connection was lost under its COMMIT.                 *)
THEOREM AnswersAreTrue == Spec => AnswersTellTheTruth
<1>1. IInv /\ [Next]_vars =>
        [\A c \in Calls :
           call'[c].pc # call[c].pc =>
             /\ call'[c].pc = "answering" /\ call[c].kind # "read" => committed'[c]
             /\ call'[c].pc = "refusing" => ~committed'[c]
             /\ call'[c].pc = "failing" /\ committed'[c] =>
                  lost[c] \/ call[c].kind = "rewrite"]_vars
  BY AnswerIsTrue
<1>2. QED
  BY <1>1, Invariance, PTL DEF Spec, AnswersTellTheTruth

LEMMA FailureHasCause ==
  ASSUME IInv, [Next]_vars, NEW c \in Calls,
         call[c].pc # "failing", call'[c].pc = "failing"
  PROVE  \/ lost[c]
         \/ Cardinality({d \in Calls : call[d].pc \in Working \cup Ending}) >= Limit
<1> DEFINE Served == {d \in Calls : call[d].pc \in Working \cup Ending}
<1>1. TypeOK /\ Told(c) /\ \A d \in Calls : Holds(d)
  BY DEF IInv
<1>2. ASSUME NEW pc, Respond(c, pc) PROVE call'[c].pc = pc
  BY <1>1, <1>2 DEF Respond, Ends, TypeOK
<1>3. ASSUME NEW pc, Ends(c, pc, "none") PROVE call'[c].pc = pc
  BY <1>1, <1>3 DEF Ends, TypeOK
<1>4. ~\E kind \in Kinds : Arrive(c, kind)
  BY <1>1 DEF Arrive, TypeOK, CallState
<1>5. ~(Take(c) \/ Lock(c))
  BY <1>1 DEF Take, Lock, TypeOK, CallState
<1>6. ~Read(c)
  <2>1. ASSUME NEW pc \in {"locking", "commit"} PROVE ~Goto(c, pc)
    BY <1>1 DEF Goto, TypeOK, CallState
  <2>2. QED
    BY <1>2, <2>1 DEF Read
<1>7. ~Reread(c)
  BY <1>2 DEF Reread
<1>8. ~Commit(c)
  <2>1. CASE call[c].kind = "rewrite"
    BY <1>1, <2>1 DEF Commit, TypeOK, CallState
  <2>2. CASE call[c].kind # "rewrite"
    BY <1>3, <2>2 DEF Commit
  <2>3. QED
    BY <2>1, <2>2
<1>9. ~(Conflict(c) \/ Close(c) \/ Abandon(c))
  BY <1>3 DEF Conflict, Close, Abandon, Leave
<1>10. CASE Fail(c) \/ Unreachable(c)
  BY <1>1, <1>10 DEF Fail, Unreachable, Told
<1>11. CASE TimeOut(c)
  <2>1. Cardinality(Holding) >= Limit
    BY <1>11 DEF TimeOut, Full
  <2>2. Holding \subseteq Served
    BY <1>1 DEF Holding, Holds, TypeOK, CallState
  <2>3. IsFiniteSet(Served)
    BY FS_Subset
  <2>4. Cardinality(Holding) <= Cardinality(Served)
    BY <2>2, <2>3, FS_Subset
  <2>5. Cardinality(Served) \in Nat /\ Limit \in Nat
    BY <2>3, FS_CardinalityType DEF Limit
  <2>6. QED
    BY <2>1, <2>4, <2>5, FiniteHolding
<1>12. QED
  BY <1>4, <1>5, <1>6, <1>7, <1>8, <1>9, <1>10, <1>11, OwnStep DEF Proceed

(* pool_pre_ping and get_db_session: a request that is answered 500 met a  *)
(* database that was down or a connection that was lost, or as many others *)
(* being served as there are connections.                                  *)
THEOREM FailuresAreExplained == Spec => FailuresExplained
<1>1. IInv /\ [Next]_vars =>
        [\A c \in Calls :
           call[c].pc # "failing" /\ call'[c].pc = "failing" =>
             \/ lost[c]
             \/ Cardinality({d \in Calls : call[d].pc \in Working \cup Ending}) >= Limit]_vars
  BY FailureHasCause
<1>2. QED
  BY <1>1, Invariance, PTL DEF Spec, FailuresExplained

-----------------------------------------------------------------------------
(* EveryRequestAnswered rests on fairness, its substance does not: no      *)
(* request takes a step twice.                                             *)

(* The steps a request has left at most. *)
StepsLeft(pc) ==
  CASE pc = "queued" -> 7
    [] pc = "reading" -> 6
    [] pc = "locking" -> 5
    [] pc = "commit" -> 4
    [] pc = "requeued" -> 3
    [] pc = "rereading" -> 2
    [] pc \in Ending -> 1
    [] OTHER -> 0

LEMMA StepShrinks ==
  ASSUME IInv, [Next]_vars, NEW c \in Calls, call[c].pc # "idle", call'[c].pc # call[c].pc
  PROVE  StepsLeft(call'[c].pc) < StepsLeft(call[c].pc)
<1>1. TypeOK
  BY DEF IInv
<1>2. ASSUME NEW pc, Respond(c, pc) PROVE call'[c].pc = pc
  BY <1>1, <1>2 DEF Respond, Ends, TypeOK
<1>3. ASSUME NEW pc, Ends(c, pc, "none") PROVE call'[c].pc = pc
  BY <1>1, <1>3 DEF Ends, TypeOK
<1>4. ~\E kind \in Kinds : Arrive(c, kind)
  BY DEF Arrive
<1>5. CASE Take(c)
  <2>1. \/ call[c].pc = "queued" /\ call'[c].pc = "reading"
        \/ call[c].pc = "requeued" /\ call'[c].pc = "rereading"
    BY <1>1, <1>5 DEF Take, TypeOK, CallState, Waiting
  <2>2. QED
    BY <2>1 DEF StepsLeft, Ending
<1>6. CASE TimeOut(c) \/ Unreachable(c)
  <2>1. call[c].pc \in {"queued", "requeued"} /\ call'[c].pc = "failing"
    BY <1>2, <1>6 DEF TimeOut, Unreachable, Waiting
  <2>2. QED
    BY <2>1 DEF StepsLeft, Ending
<1>7. CASE Read(c)
  <2>1. call[c].pc = "reading"
    BY <1>7 DEF Read, At
  <2>2. call'[c].pc \in {"refusing", "answering", "locking", "commit"}
    <3>1. ASSUME NEW pc, Goto(c, pc) PROVE call'[c].pc = pc
      BY <1>1, <3>1 DEF Goto, TypeOK, CallState
    <3>2. QED
      BY <1>2, <1>7, <3>1 DEF Read
  <2>3. QED
    BY <2>1, <2>2 DEF StepsLeft, Ending
<1>8. CASE Lock(c) \/ Conflict(c)
  <2>1. call[c].pc = "locking" /\ call'[c].pc \in {"commit", "refusing"}
    BY <1>1, <1>3, <1>8 DEF Lock, Conflict, At, TypeOK, CallState
  <2>2. QED
    BY <2>1 DEF StepsLeft, Ending
<1>9. CASE Commit(c)
  <2>1. call[c].pc = "commit"
    BY <1>9 DEF Commit, At
  <2>2. call'[c].pc \in {"requeued", "answering"}
    <3>1. CASE call[c].kind = "rewrite"
      BY <1>1, <1>9, <3>1 DEF Commit, TypeOK, CallState
    <3>2. CASE call[c].kind # "rewrite"
      BY <1>3, <1>9, <3>2 DEF Commit
    <3>3. QED
      BY <3>1, <3>2
  <2>3. QED
    BY <2>1, <2>2 DEF StepsLeft, Ending
<1>10. CASE Reread(c)
  <2>1. call[c].pc = "rereading" /\ call'[c].pc = "answering"
    BY <1>2, <1>10 DEF Reread, At
  <2>2. QED
    BY <2>1 DEF StepsLeft, Ending
<1>11. CASE Fail(c)
  <2>1. call[c].pc \in {"reading", "locking", "commit", "rereading"} /\ call'[c].pc = "failing"
    BY <1>3, <1>11 DEF Fail, Working
  <2>2. QED
    BY <2>1 DEF StepsLeft, Ending
<1>12. CASE Close(c) \/ Abandon(c)
  <2>1. call'[c].pc = "idle"
    BY <1>3, <1>12 DEF Close, Abandon, Leave
  <2>2. call[c].pc \in {"queued", "reading", "locking", "commit", "requeued", "rereading"} \cup Ending
    BY <1>1 DEF TypeOK, CallState, Waiting, Working
  <2>3. QED
    BY <2>1, <2>2 DEF StepsLeft, Ending
<1>13. QED
  BY <1>4, <1>5, <1>6, <1>7, <1>8, <1>9, <1>10, <1>11, <1>12, OwnStep DEF Proceed

(* The handlers retry nothing, and neither does the pool: whatever breaks, *)
(* each step of a request brings its end nearer, and a request has seven   *)
(* steps at most.                                                          *)
THEOREM EveryStepBringsTheEndNearer ==
  Spec => [][\A c \in Calls :
               call[c].pc # "idle" /\ call'[c].pc # call[c].pc =>
                 StepsLeft(call'[c].pc) < StepsLeft(call[c].pc)]_vars
<1>1. IInv /\ [Next]_vars =>
        [\A c \in Calls :
           call[c].pc # "idle" /\ call'[c].pc # call[c].pc =>
             StepsLeft(call'[c].pc) < StepsLeft(call[c].pc)]_vars
  BY StepShrinks
<1>2. QED
  BY <1>1, Invariance, PTL DEF Spec
=============================================================================
