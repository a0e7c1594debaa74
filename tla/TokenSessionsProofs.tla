------------------------- MODULE TokenSessionsProofs -------------------------
(***************************************************************************)
(* The invariants of TokenSessions for any set of accounts, any number of  *)
(* concurrent calls and any column width.                                  *)
(***************************************************************************)
EXTENDS TokenSessions, TLAPS

(* What each call knows about the row between its read and its write: the  *)
(* part of the inductive invariant that the properties do not state.       *)
CallInv ==
  \A c \in Calls :
    /\ call[c].pc \in {"increment", "issue"} =>
         call[c].user \in raced \/ call[c].seen <= version[call[c].user]
    /\ call[c].pc \in {"authenticated", "increment", "reread"} =>
         call[c].op \in {"refresh", "logout"}
    /\ call[c].op = "logout" => call[c].pc \in {"authenticated", "increment", "reread"}
    /\ call[c].op = "refresh" =>
         /\ call[c].pc \in {"increment", "reread", "issue"}
         /\ call[c].token \in Tokens /\ call[c].token.user = call[c].user
         /\ call[c].pc = "increment" => call[c].seen = call[c].token.version
         /\ call[c].pc = "reread" =>
              call[c].user \in raced \/ call[c].token.version < version[call[c].user]

SpentInv == \A t \in spent : t.user \in raced \/ t.version < version[t.user]

IInv ==
  /\ TypeOK
  /\ RevokedUnlessRaced
  /\ SpentOnceUnlessRaced
  /\ NoTokenFromTheFuture
  /\ RefreshAdvances
  /\ FailsOnlyAtTheLimit
  /\ CallInv
  /\ SpentInv

(* The initial state has no token, no open call and nothing to revoke. *)
LEMMA InitIInv == Init => IInv
<1> SUFFICES ASSUME Init PROVE IInv
  OBVIOUS
<1>1. PICK f : /\ f \in [Calls -> {[pc |-> "idle", op |-> "none", user |-> u,
                          token |-> NoToken, seen |-> 0] : u \in Users}]
               /\ call = f
  BY DEF Init
<1>2. \A c \in Calls : /\ call[c] \in CallState
                       /\ call[c].pc = "idle" /\ call[c].op = "none"
  BY <1>1, VersionAssumption DEF CallState, Versions, Closed
<1>3. TypeOK
  BY <1>1, <1>2, VersionAssumption DEF Init, TypeOK, Versions
<1> QED
  BY <1>2, <1>3 DEF Init, IInv, RevokedUnlessRaced, SpentOnceUnlessRaced,
     NoTokenFromTheFuture, RefreshAdvances, FailsOnlyAtTheLimit, CallInv, SpentInv

(* A call that ends with nothing written leaves the invariant as it was:   *)
(* a closed call is one about which the invariant says nothing.            *)
LEMMA CloseIInv ==
  ASSUME IInv, NEW c \in Calls, NEW u \in Users,
         NEW pc \in {"idle", "ok", "unauthorized", "failed"},
         pc = "failed" => u \in raced \/ version[u] = MaxVersion,
         Close(c, pc, u), UNCHANGED <<version, issued, history>>
  PROVE  IInv'
<1> USE DEF history
<1>1. /\ \A d \in Calls : d # c => call'[d] = call[d]
      /\ call'[c] = [pc |-> pc, op |-> "none", user |-> u, token |-> NoToken, seen |-> 0]
  BY DEF Close, IInv, TypeOK
<1>2. TypeOK'
  BY <1>1, VersionAssumption DEF Close, IInv, TypeOK, CallState, Closed, Versions
<1>3. (RevokedUnlessRaced /\ SpentOnceUnlessRaced /\ NoTokenFromTheFuture /\ SpentInv)'
  BY DEF IInv, RevokedUnlessRaced, SpentOnceUnlessRaced, NoTokenFromTheFuture, SpentInv
<1>4. (RefreshAdvances /\ FailsOnlyAtTheLimit)'
  BY <1>1 DEF IInv, RefreshAdvances, FailsOnlyAtTheLimit
<1>5. CallInv'
  BY <1>1 DEF IInv, CallInv
<1> QED
  BY <1>2, <1>3, <1>4, <1>5 DEF IInv

(* A call that has only read the row: what it saw is the current version.  *)
LEMMA ReadIInv ==
  ASSUME IInv, NEW c \in Calls, UNCHANGED <<version, issued, history>>,
         NEW q \in CallState, call' = [call EXCEPT ![c] = q],
         q.seen = version[q.user],
         \/ q.op = "login" /\ q.pc = "issue"
         \/ q.op = "logout" /\ q.pc \in {"authenticated", "increment"}
         \/ /\ q.op = "refresh" /\ q.token \in Tokens /\ q.token.user = q.user
            /\ \/ q.pc = "increment" /\ q.seen = q.token.version
               \/ q.pc = "issue" /\ (q.user \in raced \/ q.token.version < q.seen)
  PROVE  IInv'
<1> USE DEF history
<1>1. /\ \A d \in Calls : d # c => call'[d] = call[d]
      /\ call'[c] = q
  BY DEF IInv, TypeOK
<1>2. TypeOK'
  BY DEF IInv, TypeOK
<1>3. (RevokedUnlessRaced /\ SpentOnceUnlessRaced /\ NoTokenFromTheFuture /\ SpentInv)'
  BY DEF IInv, RevokedUnlessRaced, SpentOnceUnlessRaced, NoTokenFromTheFuture, SpentInv
<1>4. (RefreshAdvances /\ FailsOnlyAtTheLimit)'
  BY <1>1 DEF IInv, RefreshAdvances, FailsOnlyAtTheLimit, CallState, Tokens, Versions
<1>5. CallInv'
  BY <1>1, VersionAssumption DEF IInv, CallInv, TypeOK, CallState, Tokens, Versions
<1> QED
  BY <1>2, <1>3, <1>4, <1>5 DEF IInv
(* The write.  If the row is still the one the call read, the version goes *)
(* up by one and every older token stays below it; if not, the user is     *)
(* marked raced and the invariant no longer speaks of that user.           *)
LEMMA IncrementIInv ==
  ASSUME IInv, NEW c \in Calls, Increment(c)
  PROVE  IInv'
<1> DEFINE u == call[c].user
<1>1. /\ u \in Users /\ call[c].seen \in Versions /\ call[c].seen + 1 \in Versions
      /\ u \in raced' \/ call[c].seen = version[u]
  BY VersionAssumption DEF IInv, TypeOK, CallState, Versions, Increment, RecordRace
<1>2. /\ version'[u] = call[c].seen + 1
      /\ \A v \in Users : v # u => version'[v] = version[v]
      /\ raced \subseteq raced'
      /\ issued' = issued
  BY <1>1 DEF IInv, TypeOK, Increment, RecordRace
<1>3. /\ \A d \in Calls : d # c => call'[d] = call[d]
      /\ call'[c].pc = "reread" /\ call'[c].user = u
      /\ call'[c].op = call[c].op /\ call'[c].seen = call[c].seen
      /\ call'[c].token = call[c].token
  BY DEF IInv, TypeOK, CallState, Increment
<1>4. TypeOK'
  <2>1. version' \in [Users -> Versions] /\ issued' \in SUBSET Tokens
    BY <1>1 DEF IInv, TypeOK, Increment
  <2>2. call' \in [Calls -> CallState]
    BY DEF IInv, TypeOK, Increment, CallState, Open
  <2>3. revoked' \in SUBSET Tokens /\ spent' \in SUBSET Tokens /\ reused' \in SUBSET spent'
    BY DEF IInv, TypeOK, CallInv, Increment, RecordRevocation, TokensOf
  <2>4. raced' \in SUBSET Users
    BY <1>1 DEF IInv, TypeOK, Increment, RecordRace
  <2> QED
    BY <2>1, <2>2, <2>3, <2>4 DEF TypeOK
<1>5. \A v \in Users : /\ v \in raced' \/ version[v] <= version'[v]
                       /\ version[v] \in Versions /\ version'[v] \in Versions
  BY <1>1, <1>2, <1>4 DEF IInv, TypeOK, Versions
<1>6. RevokedUnlessRaced'
  <2> SUFFICES ASSUME NEW t \in revoked', t.user \notin raced'
               PROVE  t.version < version'[t.user]
    BY DEF RevokedUnlessRaced
  <2>1. t \in Tokens
    BY <1>4 DEF TypeOK
  <2>2. CASE t \in revoked
    BY <1>2, <1>5, <2>1, <2>2 DEF IInv, TypeOK, RevokedUnlessRaced, Tokens, Versions
  <2>3. CASE t \in TokensOf(u)
    BY <1>1, <1>2, <2>1, <2>3
       DEF IInv, NoTokenFromTheFuture, TokensOf, Tokens, Versions
  <2> QED
    BY <2>2, <2>3 DEF Increment, RecordRevocation
<1>7. SpentInv'
  <2> SUFFICES ASSUME NEW t \in spent', t.user \notin raced'
               PROVE  t.version < version'[t.user]
    BY DEF SpentInv
  <2>1. t \in Tokens
    BY <1>4 DEF TypeOK
  <2>2. CASE t \in spent
    BY <1>2, <1>5, <2>1, <2>2 DEF IInv, TypeOK, SpentInv, Tokens, Versions
  <2>3. CASE call[c].op = "refresh" /\ t = call[c].token
    BY <1>1, <1>2, <2>1, <2>3 DEF IInv, CallInv, Increment, Tokens, Versions
  <2> QED
    BY <2>2, <2>3 DEF IInv, CallInv, Increment, RecordRevocation
<1>8. SpentOnceUnlessRaced'
  <2> SUFFICES ASSUME NEW t \in reused', t \notin reused PROVE t.user \in raced'
    BY <1>2 DEF SpentOnceUnlessRaced, IInv
  <2>1. call[c].op = "refresh" /\ t = call[c].token /\ t \in spent
    BY DEF IInv, CallInv, Increment, RecordRevocation
  <2>2. t \in Tokens /\ t.user = u /\ t.version = call[c].seen
    BY <2>1 DEF IInv, CallInv, Increment
  <2>3. t.user \in raced \/ t.version < version[u]
    BY <2>1, <2>2 DEF IInv, SpentInv
  <2> QED
    BY <1>1, <1>2, <2>2, <2>3 DEF IInv, TypeOK, Tokens, Versions
<1>9. NoTokenFromTheFuture'
  <2> SUFFICES ASSUME NEW t \in issued, t.user \notin raced'
               PROVE  t.version <= version'[t.user]
    BY <1>2 DEF NoTokenFromTheFuture
  <2> QED
    BY <1>2, <1>5, VersionAssumption
       DEF IInv, TypeOK, NoTokenFromTheFuture, Tokens, Versions
<1>10. (RefreshAdvances /\ FailsOnlyAtTheLimit)'
  <2>1. RefreshAdvances'
    BY <1>2, <1>3 DEF IInv, RefreshAdvances
  <2>2. FailsOnlyAtTheLimit'
    <3> SUFFICES ASSUME NEW d \in Calls, call'[d].pc = "failed", call[d].user \notin raced'
                 PROVE  version'[call[d].user] = MaxVersion
      BY <1>3 DEF FailsOnlyAtTheLimit, IInv, TypeOK, CallState
    <3>1. d # c /\ call[d].pc = "failed" /\ call[d].user \in Users
      BY <1>3 DEF IInv, TypeOK, CallState
    <3> QED
      BY <1>1, <1>2, <3>1, VersionAssumption
         DEF IInv, TypeOK, FailsOnlyAtTheLimit, Increment, Versions
  <2> QED
    BY <2>1, <2>2
<1>11. CallInv'
  <2> SUFFICES ASSUME NEW d \in Calls PROVE CallInv!(d)'
    BY DEF CallInv
  <2>1. CASE d = c
    BY <1>1, <1>2, <1>3, <2>1 DEF IInv, CallInv, Increment, Tokens, Versions
  <2>2. CASE d # c
    BY <1>2, <1>3, <1>5, <2>2, VersionAssumption
       DEF IInv, TypeOK, CallState, CallInv, Tokens, Versions
  <2> QED
    BY <2>1, <2>2
<1> QED
  BY <1>4, <1>6, <1>7, <1>8, <1>9, <1>10, <1>11 DEF IInv
(* Signing a pair adds tokens with the version the call read last. *)
LEMMA IssueIInv ==
  ASSUME IInv, NEW c \in Calls, Issue(c)
  PROVE  IInv'
<1> USE DEF history
<1> DEFINE u == call[c].user
<1>1. u \in Users /\ call[c].seen \in Versions
      /\ (u \in raced \/ call[c].seen <= version[u])
  BY DEF IInv, TypeOK, CallState, CallInv, Issue
<1>2. /\ \A d \in Calls : d # c => call'[d] = call[d]
      /\ call'[c] = [pc |-> "ok", op |-> "none", user |-> u, token |-> NoToken, seen |-> 0]
  BY DEF Issue, Close, IInv, TypeOK
<1>3. TypeOK'
  <2>1. issued' \in SUBSET Tokens
    BY <1>1 DEF IInv, TypeOK, Issue, Pair, Tokens
  <2>2. call' \in [Calls -> CallState]
    BY <1>1, <1>2, VersionAssumption
       DEF Issue, Close, IInv, TypeOK, CallState, Closed, Versions
  <2> QED
    BY <2>1, <2>2 DEF IInv, TypeOK, Issue
<1>4. (RevokedUnlessRaced /\ SpentOnceUnlessRaced /\ SpentInv)'
  BY DEF IInv, Issue, RevokedUnlessRaced, SpentOnceUnlessRaced, SpentInv
<1>5. NoTokenFromTheFuture'
  BY <1>1 DEF IInv, Issue, NoTokenFromTheFuture, Pair
<1>6. (RefreshAdvances /\ FailsOnlyAtTheLimit)'
  BY <1>2 DEF IInv, Issue, RefreshAdvances, FailsOnlyAtTheLimit
<1>7. CallInv'
  BY <1>2 DEF IInv, Issue, CallInv
<1> QED
  BY <1>3, <1>4, <1>5, <1>6, <1>7 DEF IInv

(* A token whose exp passes leaves the history with it. *)
LEMMA ExpireIInv ==
  ASSUME IInv, NEW t \in Tokens, Expire(t)
  PROVE  IInv'
BY DEF IInv, TypeOK, Expire, RevokedUnlessRaced, SpentOnceUnlessRaced, SpentInv,
       NoTokenFromTheFuture, RefreshAdvances, FailsOnlyAtTheLimit, CallInv

(* Every step of the specification preserves the inductive invariant. *)
LEMMA NextIInv == IInv /\ [Next]_vars => IInv'
<1> SUFFICES ASSUME IInv, [Next]_vars PROVE IInv'
  OBVIOUS
<1>1. ASSUME NEW c \in Calls, NEW u \in Users, LoginAccepted(c, u) PROVE IInv'
  <2> DEFINE q == [pc |-> "issue", op |-> "login", user |-> u,
                   token |-> NoToken, seen |-> version[u]]
  <2>1. q \in CallState
    BY DEF IInv, TypeOK, CallState, Open
  <2> QED
    BY <1>1, <2>1, ReadIInv DEF LoginAccepted, Start
<1>2. ASSUME NEW c \in Calls, NEW u \in Users, LoginRefused(c, u) PROVE IInv'
  BY <1>2, CloseIInv DEF LoginRefused
<1>3. ASSUME NEW c \in Calls, NEW t \in Tokens, RefreshAccepted(c, t) PROVE IInv'
  <2> DEFINE q == [pc |-> "increment", op |-> "refresh", user |-> t.user,
                   token |-> t, seen |-> version[t.user]]
  <2>1. q \in CallState /\ t.user \in Users
    BY DEF IInv, TypeOK, CallState, Open, Tokens
  <2> QED
    BY <1>3, <2>1, ReadIInv DEF RefreshAccepted, Accepts, Start
<1>4. ASSUME NEW c \in Calls, NEW t \in Tokens, RefreshRefused(c, t) PROVE IInv'
  BY <1>4, CloseIInv DEF RefreshRefused, Tokens
<1>5. ASSUME NEW c \in Calls, NEW t \in Tokens, LogoutAuthenticated(c, t) PROVE IInv'
  <2> DEFINE q == [pc |-> "authenticated", op |-> "logout", user |-> t.user,
                   token |-> t, seen |-> version[t.user]]
  <2>1. q \in CallState
    BY DEF IInv, TypeOK, CallState, Open, Tokens
  <2> QED
    BY <1>5, <2>1, ReadIInv DEF LogoutAuthenticated, Start
<1>6. ASSUME NEW c \in Calls, NEW t \in Tokens, LogoutRefused(c, t) PROVE IInv'
  BY <1>6, CloseIInv DEF LogoutRefused, Tokens
<1>7. ASSUME NEW c \in Calls, LogoutRead(c) PROVE IInv'
  <2> DEFINE q == [call[c] EXCEPT !.pc = "increment", !.seen = version[call[c].user]]
  <2>1. /\ q \in CallState /\ q.op = "logout" /\ q.pc = "increment"
        /\ q.seen = version[q.user] /\ call' = [call EXCEPT ![c] = q]
    BY <1>7 DEF IInv, TypeOK, CallInv, CallState, Open, LogoutRead
  <2> QED
    BY <1>7, <2>1, ReadIInv DEF LogoutRead
<1>8. ASSUME NEW c \in Calls, Increment(c) PROVE IInv'
  BY <1>8, IncrementIInv
<1>9. ASSUME NEW c \in Calls, IncrementOverflow(c) PROVE IInv'
  <2>1. /\ call[c].user \in Users
        /\ call[c].user \in raced \/ version[call[c].user] = MaxVersion
    BY <1>9, VersionAssumption
       DEF IncrementOverflow, IInv, TypeOK, CallState, CallInv, Versions
  <2> QED
    BY <1>9, <2>1, CloseIInv DEF IncrementOverflow
<1>10. ASSUME NEW c \in Calls, RefreshReread(c) PROVE IInv'
  <2> DEFINE q == [call[c] EXCEPT !.pc = "issue", !.seen = version[call[c].user]]
  <2>1. /\ q \in CallState /\ q.op = "refresh" /\ q.pc = "issue"
        /\ q.token \in Tokens /\ q.token.user = q.user
        /\ q.seen = version[q.user] /\ call' = [call EXCEPT ![c] = q]
        /\ q.user \in raced \/ q.token.version < q.seen
    BY <1>10 DEF IInv, TypeOK, CallInv, CallState, Open, RefreshReread
  <2> QED
    BY <1>10, <2>1, ReadIInv DEF RefreshReread
<1>11. ASSUME NEW c \in Calls, LogoutReread(c) PROVE IInv'
  BY <1>11, CloseIInv DEF LogoutReread, IInv, TypeOK, CallState
<1>12. ASSUME NEW c \in Calls, Issue(c) PROVE IInv'
  BY <1>12, IssueIInv
<1>13. ASSUME NEW c \in Calls, Abandon(c) PROVE IInv'
  BY <1>13, CloseIInv DEF Abandon, IInv, TypeOK, CallState
<1>14. ASSUME NEW t \in Tokens, Expire(t) PROVE IInv'
  BY <1>14, ExpireIInv
<1>15. CASE UNCHANGED vars
  BY <1>15 DEF vars, history, IInv, TypeOK, RevokedUnlessRaced, SpentOnceUnlessRaced,
     SpentInv, NoTokenFromTheFuture, RefreshAdvances, FailsOnlyAtTheLimit, CallInv
<1> QED
  BY <1>1, <1>2, <1>3, <1>4, <1>5, <1>6, <1>7, <1>8, <1>9, <1>10, <1>11, <1>12,
     <1>13, <1>14, <1>15 DEF Next

LEMMA InvariantHolds == Spec => []IInv
BY InitIInv, NextIInv, PTL DEF Spec
(* TypeOK holds for every number of accounts and calls: increments never   *)
(* push users.token_version out of its column's range.                     *)
THEOREM TypeCorrect == Spec => []TypeOK
<1> IInv => TypeOK
  BY DEF IInv
<1> QED
  BY InvariantHolds, PTL

(* RevokedUnlessRaced, for any number of concurrent calls: overlapping     *)
(* increments are the only way a token outlives its user's logout.         *)
THEOREM LogoutRevokes == Spec => []RevokedUnlessRaced
<1> IInv => RevokedUnlessRaced
  BY DEF IInv
<1> QED
  BY InvariantHolds, PTL

(* SpentOnceUnlessRaced: overlapping increments are the only way a refresh *)
(* token is exchanged twice.                                               *)
THEOREM RefreshSpendsOnce == Spec => []SpentOnceUnlessRaced
<1> IInv => SpentOnceUnlessRaced
  BY DEF IInv
<1> QED
  BY InvariantHolds, PTL

(* NoTokenFromTheFuture: create_token_pair signs no version that the row   *)
(* could reach only later.                                                 *)
THEOREM NothingSignedAhead == Spec => []NoTokenFromTheFuture
<1> IInv => NoTokenFromTheFuture
  BY DEF IInv
<1> QED
  BY InvariantHolds, PTL

(* RefreshAdvances: a refresh answers with a newer pair than it was given. *)
THEOREM RefreshMovesForward == Spec => []RefreshAdvances
<1> IInv => RefreshAdvances
  BY DEF IInv
<1> QED
  BY InvariantHolds, PTL

(* FailsOnlyAtTheLimit: a refresh or logout that fails has met the largest *)
(* value of the token_version column.                                      *)
THEOREM FailuresAtTheLimit == Spec => []FailsOnlyAtTheLimit
<1> IInv => FailsOnlyAtTheLimit
  BY DEF IInv
<1> QED
  BY InvariantHolds, PTL

(* One step writes a version one above the row's, or from a stale row.     *)
LEMMA StepMovesVersionUp ==
  IInv /\ [Next]_vars =>
    \A u \in Users : version'[u] \in {version[u], version[u] + 1} \/ u \in raced'
<1> SUFFICES ASSUME IInv, [Next]_vars, NEW u \in Users
             PROVE  version'[u] \in {version[u], version[u] + 1} \/ u \in raced'
  OBVIOUS
<1>1. CASE \E c \in Calls : Increment(c)
  BY <1>1 DEF IInv, TypeOK, CallState, Increment, RecordRace
<1>2. CASE UNCHANGED version
  BY <1>2
<1> QED
  BY <1>1, <1>2 DEF Next, vars, history, LoginAccepted, LoginRefused, RefreshAccepted,
     RefreshRefused, LogoutAuthenticated, LogoutRefused, LogoutRead,
     IncrementOverflow, RefreshReread, LogoutReread, Issue, Abandon, Expire

(* VersionStepsUp: token_version never goes back, and never skips a value, *)
(* while the increments of a user do not overlap.                          *)
THEOREM VersionsOnlyGrow == Spec => VersionStepsUp
BY InvariantHolds, StepMovesVersionUp, PTL DEF Spec, VersionStepsUp

-----------------------------------------------------------------------------
(* What a lock on the row, held from the SELECT to the COMMIT, would bring *)
(* about: no two calls are between reading a version and writing it.       *)
NoOverlap ==
  \A c, d \in Calls :
    /\ call[c].pc = "increment" /\ call[d].pc = "increment"
    /\ call[c].user = call[d].user
    => c = d

(* Then whoever is about to write still knows the version.                 *)
SeenIsCurrent ==
  /\ raced = {}
  /\ \A c \in Calls : call[c].pc = "increment" => call[c].seen = version[call[c].user]

(* A call changes at most its own slot, and who comes to the increment has *)
(* just read the row.                                                      *)
LEMMA NoOverlapKeepsSeen ==
  ASSUME TypeOK, NoOverlap, SeenIsCurrent, [Next]_vars
  PROVE  SeenIsCurrent'
<1>1. ASSUME NEW c \in Calls, Increment(c) PROVE SeenIsCurrent'
  <2>1. raced' = {}
    BY <1>1 DEF SeenIsCurrent, Increment, RecordRace
  <2>2. ASSUME NEW d \in Calls, call'[d].pc = "increment"
        PROVE  call'[d].seen = version'[call'[d].user]
    <3>1. d # c /\ call'[d] = call[d]
      BY <1>1, <2>2 DEF Increment, TypeOK, CallState
    <3>2. call[d].user # call[c].user
      BY <1>1, <2>2, <3>1 DEF Increment, NoOverlap
    <3>3. version'[call[d].user] = version[call[d].user]
      BY <1>1, <3>2 DEF Increment, TypeOK, CallState
    <3> QED
      BY <2>2, <3>1, <3>3 DEF SeenIsCurrent
  <2> QED
    BY <2>1, <2>2 DEF SeenIsCurrent
<1>2. ASSUME UNCHANGED <<version, raced>>, NEW c \in Calls, NEW q,
             call' = [call EXCEPT ![c] = q],
             q.pc = "increment" => q.seen = version[q.user]
      PROVE  SeenIsCurrent'
  BY <1>2 DEF SeenIsCurrent, TypeOK
<1>3. ASSUME NEW c \in Calls, NEW u \in Users, LoginAccepted(c, u) \/ LoginRefused(c, u)
      PROVE  SeenIsCurrent'
  BY <1>2, <1>3 DEF LoginAccepted, LoginRefused, Start, Close, history
<1>4. ASSUME NEW c \in Calls, NEW t \in Tokens,
             \/ RefreshAccepted(c, t) \/ RefreshRefused(c, t)
             \/ LogoutAuthenticated(c, t) \/ LogoutRefused(c, t)
      PROVE  SeenIsCurrent'
  BY <1>2, <1>4 DEF RefreshAccepted, RefreshRefused, LogoutAuthenticated, LogoutRefused,
                    Start, Close, history
<1>5. ASSUME NEW c \in Calls, LogoutRead(c) PROVE SeenIsCurrent'
  <2> DEFINE q == [call[c] EXCEPT !.pc = "increment", !.seen = version[call[c].user]]
  <2>1. call' = [call EXCEPT ![c] = q] /\ q.seen = version[q.user]
    BY <1>5 DEF LogoutRead, TypeOK, CallState
  <2> QED
    BY <1>2, <1>5, <2>1 DEF LogoutRead, history
<1>6. ASSUME NEW c \in Calls, RefreshReread(c) PROVE SeenIsCurrent'
  <2> DEFINE q == [call[c] EXCEPT !.pc = "issue", !.seen = version[call[c].user]]
  <2>1. call' = [call EXCEPT ![c] = q] /\ q.pc # "increment"
    BY <1>6 DEF RefreshReread, TypeOK, CallState
  <2> QED
    BY <1>2, <1>6, <2>1 DEF RefreshReread, history
<1>7. ASSUME NEW c \in Calls,
             IncrementOverflow(c) \/ LogoutReread(c) \/ Issue(c) \/ Abandon(c)
      PROVE  SeenIsCurrent'
  BY <1>2, <1>7 DEF IncrementOverflow, LogoutReread, Issue, Abandon, Close, history
<1>8. ASSUME NEW t \in Tokens, Expire(t) PROVE SeenIsCurrent'
  BY <1>8 DEF Expire, SeenIsCurrent
<1>9. CASE UNCHANGED vars
  BY <1>9 DEF vars, history, SeenIsCurrent
<1> QED
  BY <1>1, <1>3, <1>4, <1>5, <1>6, <1>7, <1>8, <1>9 DEF Next

LEMMA NoOverlapNoRace == Spec /\ []NoOverlap => []SeenIsCurrent
<1>1. Init => SeenIsCurrent
  BY DEF Init, SeenIsCurrent
<1>2. TypeOK /\ NoOverlap /\ SeenIsCurrent /\ [Next]_vars => SeenIsCurrent'
  BY NoOverlapKeepsSeen
<1> QED
  BY <1>1, <1>2, TypeCorrect, PTL DEF Spec

(* RevokedStayRevoked, which the run logout_race sees broken: a logout     *)
(* ends every token its user had (DESIGN.md:138), for good, if nothing     *)
(* comes between a call's reading of the version and its writing it.       *)
THEOREM LockedLogoutRevokes == Spec /\ []NoOverlap => []RevokedStayRevoked
<1>1. IInv /\ SeenIsCurrent => RevokedStayRevoked
  BY DEF IInv, TypeOK, SeenIsCurrent, RevokedUnlessRaced, RevokedStayRevoked, Accepts,
         Tokens, Versions
<1> QED
  BY <1>1, NoOverlapNoRace, InvariantHolds, PTL

(* RefreshTokenSpentOnce, which the run refresh_reuse sees broken: under   *)
(* the same condition a refresh token is exchanged once.                   *)
THEOREM LockedRefreshSpendsOnce == Spec /\ []NoOverlap => []RefreshTokenSpentOnce
<1>1. IInv /\ SeenIsCurrent => RefreshTokenSpentOnce
  BY DEF IInv, SeenIsCurrent, SpentOnceUnlessRaced, RefreshTokenSpentOnce
<1> QED
  BY <1>1, NoOverlapNoRace, InvariantHolds, PTL
=============================================================================
