--------------------------- MODULE TokenSessions ---------------------------
(***************************************************************************)
(* Login, token refresh, logout and the token check every authenticated    *)
(* endpoint runs first (app/auth.py, app/api/v1/auth.py and the user       *)
(* repository they call).                                                  *)
(*                                                                         *)
(* A signed token carries the token_version its user's row had, and it is  *)
(* accepted while the row still has that version.  A call is one HTTP      *)
(* request in its own database session (READ COMMITTED); each of its       *)
(* statements is an action, so calls interleave between statements.  An    *)
(* UPDATE and the COMMIT that follows it are one action: the row lock      *)
(* keeps every other writer of the row out from one to the other, and      *)
(* nobody reads the value before the commit.                               *)
(***************************************************************************)
EXTENDS Integers

CONSTANTS Users,       \* the accounts; no endpoint deletes one
          Calls,       \* slots for concurrent HTTP calls
          MaxVersion,  \* largest value of the int4 column users.token_version
          NoToken      \* stands where a call was made without a token

Versions == 0 .. MaxVersion
Tokens == [user : Users, version : Versions, type : {"access", "refresh"}]

ASSUME VersionAssumption == MaxVersion \in Nat
ASSUME TokenAssumption == NoToken \notin Tokens

VARIABLES
  version,  \* users.token_version, as committed
  issued,   \* the tokens signed so far whose exp has not passed
  call      \* what each call is doing

(* History, read by properties only. *)
VARIABLES
  revoked,  \* the tokens that existed when a logout of their user committed
  spent,    \* the refresh tokens exchanged for a new pair
  reused,   \* the refresh tokens exchanged more than once
  raced     \* the users whose version a call overwrote with one computed
            \* from a row that another call had changed in the meantime

history == <<revoked, spent, reused, raced>>
vars == <<version, issued, call, history>>

Closed == {"idle", "ok", "unauthorized", "failed"}
Open == {"authenticated", "increment", "reread", "issue"}

CallState == [pc : Closed \cup Open, op : {"none", "login", "refresh", "logout"},
              user : Users, token : Tokens \cup {NoToken}, seen : Versions]

Free(c) == call[c].pc \in Closed

Start(c, pc, op, u, t) ==
  call' = [call EXCEPT ![c] =
             [pc |-> pc, op |-> op, user |-> u, token |-> t, seen |-> version[u]]]

Close(c, pc, u) ==
  call' = [call EXCEPT ![c] =
             [pc |-> pc, op |-> "none", user |-> u, token |-> NoToken, seen |-> 0]]

(* Mutant: the version test is left out. *)
AcceptsAnyVersion(t, type) == t \in issued /\ t.type = type

(* decode_access_token or decode_refresh_token, then the version test.     *)
Accepts(t, type) ==
  t \in issued /\ t.type = type /\ t.version = version[t.user]

Pair(u, v) == [user : {u}, version : {v}, type : {"access", "refresh"}]

TokensOf(u) == {t \in issued : t.user = u}

Init ==
  /\ version = [u \in Users |-> 0]
  /\ issued = {}
  /\ call \in [Calls -> {[pc |-> "idle", op |-> "none", user |-> u,
                          token |-> NoToken, seen |-> 0] : u \in Users}]
  /\ \A c, d \in Calls : call[c] = call[d]
  /\ revoked = {} /\ spent = {} /\ reused = {} /\ raced = {}

-----------------------------------------------------------------------------
(* POST /auth/login/ *)

LoginAccepted(c, u) ==
  /\ Free(c)
  /\ Start(c, "issue", "login", u, NoToken)
  /\ UNCHANGED <<version, issued, history>>

LoginRefused(c, u) ==
  /\ Free(c)
  /\ Close(c, "unauthorized", u)
  /\ UNCHANGED <<version, issued, history>>

(* POST /auth/refresh/ up to the version test *)

RefreshAccepted(c, t) ==
  /\ Free(c)
  /\ Accepts(t, "refresh")
  /\ Start(c, "increment", "refresh", t.user, t)
  /\ UNCHANGED <<version, issued, history>>

RefreshRefused(c, t) ==
  /\ Free(c)
  /\ ~Accepts(t, "refresh")
  /\ Close(c, "unauthorized", t.user)
  /\ UNCHANGED <<version, issued, history>>

(* POST /auth/logout/: get_current_user, then a second SELECT of the row,  *)
(* which is not compared with the token again                              *)

LogoutAuthenticated(c, t) ==
  /\ Free(c)
  /\ Accepts(t, "access")
  /\ Start(c, "authenticated", "logout", t.user, t)
  /\ UNCHANGED <<version, issued, history>>

LogoutRefused(c, t) ==
  /\ Free(c)
  /\ ~Accepts(t, "access")
  /\ Close(c, "unauthorized", t.user)
  /\ UNCHANGED <<version, issued, history>>

LogoutRead(c) ==
  /\ call[c].pc = "authenticated"
  /\ call' = [call EXCEPT ![c].pc = "increment",
                          ![c].seen = version[call[c].user]]
  /\ UNCHANGED <<version, issued, history>>

-----------------------------------------------------------------------------
(* UserRepository.increment_token_version: the new value is computed in    *)
(* Python from the row as it was read, written, committed and read again.  *)

RecordRevocation(c) ==
  IF call[c].op = "logout"
    THEN revoked' = revoked \cup TokensOf(call[c].user) /\ UNCHANGED <<spent, reused>>
    ELSE /\ spent' = spent \cup {call[c].token}
         /\ reused' = reused \cup ({call[c].token} \cap spent)
         /\ UNCHANGED revoked

RecordRace(c) ==
  raced' = raced \cup {u \in {call[c].user} : version[u] # call[c].seen}

(* Mutants: no limit to the column; the increment forgotten; a wrap-around. *)
IncrementPastLimit(c) ==
  /\ call[c].pc = "increment"
  /\ version' = [version EXCEPT ![call[c].user] = call[c].seen + 1]
  /\ call' = [call EXCEPT ![c].pc = "reread"]
  /\ RecordRevocation(c) /\ RecordRace(c) /\ UNCHANGED issued

IncrementForgotten(c) ==
  /\ call[c].pc = "increment"
  /\ version' = [version EXCEPT ![call[c].user] = call[c].seen]
  /\ call' = [call EXCEPT ![c].pc = "reread"]
  /\ RecordRevocation(c) /\ RecordRace(c) /\ UNCHANGED issued

IncrementWraps(c) ==
  /\ call[c].pc = "increment"
  /\ version' = [version EXCEPT ![call[c].user] = (call[c].seen + 1) % (MaxVersion + 1)]
  /\ call' = [call EXCEPT ![c].pc = "reread"]
  /\ RecordRevocation(c) /\ RecordRace(c) /\ UNCHANGED issued

Increment(c) ==
  /\ call[c].pc = "increment"
  /\ call[c].seen < MaxVersion
  /\ version' = [version EXCEPT ![call[c].user] = call[c].seen + 1]
  /\ call' = [call EXCEPT ![c].pc = "reread"]
  /\ RecordRevocation(c)
  /\ RecordRace(c)
  /\ UNCHANGED issued

(* Mutant: the limit taken one too low. *)
OverflowEarly(c) ==
  /\ call[c].pc = "increment"
  /\ call[c].seen + 1 >= MaxVersion
  /\ Close(c, "failed", call[c].user)
  /\ UNCHANGED <<version, issued, history>>

(* The column overflows: the driver raises, nothing is committed, 500.     *)
IncrementOverflow(c) ==
  /\ call[c].pc = "increment"
  /\ call[c].seen = MaxVersion
  /\ Close(c, "failed", call[c].user)
  /\ UNCHANGED <<version, issued, history>>

(* Mutant: the pair is signed from the row as it was before the increment. *)
RefreshKeepsRow(c) ==
  /\ call[c].pc = "reread" /\ call[c].op = "refresh"
  /\ call' = [call EXCEPT ![c].pc = "issue"]
  /\ UNCHANGED <<version, issued, history>>

RefreshReread(c) ==
  /\ call[c].pc = "reread" /\ call[c].op = "refresh"
  /\ call' = [call EXCEPT ![c].pc = "issue",
                          ![c].seen = version[call[c].user]]
  /\ UNCHANGED <<version, issued, history>>

LogoutReread(c) ==
  /\ call[c].pc = "reread" /\ call[c].op = "logout"
  /\ Close(c, "ok", call[c].user)
  /\ UNCHANGED <<version, issued, history>>

(* Mutant: signs the version the next increment will bring. *)
IssueAhead(c) ==
  /\ call[c].pc = "issue"
  /\ issued' = issued \cup Pair(call[c].user, call[c].seen + 1)
  /\ Close(c, "ok", call[c].user)
  /\ UNCHANGED <<version, history>>

(* create_token_pair, from the row this call read last *)
Issue(c) ==
  /\ call[c].pc = "issue"
  /\ issued' = issued \cup Pair(call[c].user, call[c].seen)
  /\ Close(c, "ok", call[c].user)
  /\ UNCHANGED <<version, history>>

-----------------------------------------------------------------------------
(* The client goes away, or the worker or its connection dies.  What was   *)
(* committed stays; a pair not yet issued is never seen.                   *)
Abandon(c) ==
  /\ call[c].pc \in Open
  /\ Close(c, "idle", call[c].user)
  /\ UNCHANGED <<version, issued, history>>

(* A token's exp passes. *)
Expire(t) ==
  /\ t \in issued
  /\ issued' = issued \ {t}
  /\ revoked' = revoked \ {t}
  /\ spent' = spent \ {t}
  /\ reused' = reused \ {t}
  /\ UNCHANGED <<version, call, raced>>

Next ==
  \/ \E c \in Calls :
       \/ \E u \in Users : LoginAccepted(c, u) \/ LoginRefused(c, u)
       \/ \E t \in Tokens : \/ RefreshAccepted(c, t) \/ RefreshRefused(c, t)
                            \/ LogoutAuthenticated(c, t) \/ LogoutRefused(c, t)
       \/ LogoutRead(c) \/ Increment(c) \/ IncrementOverflow(c)
       \/ RefreshReread(c) \/ LogoutReread(c) \/ Issue(c) \/ Abandon(c)
  \/ \E t \in Tokens : Expire(t)

Spec == Init /\ [][Next]_vars

-----------------------------------------------------------------------------
(* Every variable holds values of its type; in particular no version ever  *)
(* leaves the range of the column increment_token_version writes.          *)
TypeOK ==
  /\ version \in [Users -> Versions]
  /\ issued \in SUBSET Tokens
  /\ call \in [Calls -> CallState]
  /\ revoked \in SUBSET Tokens
  /\ spent \in SUBSET Tokens
  /\ reused \in SUBSET spent
  /\ raced \in SUBSET Users

(* A logout revokes every token its user had, access and refresh, and they *)
(* stay below the row's version for good, unless two increments of that    *)
(* user overlapped (get_current_user, refresh, increment_token_version).   *)
RevokedUnlessRaced ==
  \A t \in revoked : t.user \in raced \/ t.version < version[t.user]

(* One refresh token is exchanged for one new pair, unless two increments  *)
(* of that user overlapped: the version test in refresh and the increment  *)
(* that follows it reject a replay.                                        *)
SpentOnceUnlessRaced == \A t \in reused : t.user \in raced

(* create_token_pair never signs a version the row has not reached: such a *)
(* token would come to life on a later logout or refresh.                  *)
NoTokenFromTheFuture ==
  \A t \in issued : t.user \in raced \/ t.version <= version[t.user]

(* The pair a refresh hands out is newer than the token it consumed.       *)
RefreshAdvances ==
  \A c \in Calls :
    call[c].pc = "issue" /\ call[c].op = "refresh" =>
      call[c].user \in raced \/ call[c].seen > call[c].token.version

(* A refresh or logout fails with 500 only for a user whose version has    *)
(* reached the largest value of the column, and so for ever after.         *)
FailsOnlyAtTheLimit ==
  \A c \in Calls :
    call[c].pc = "failed" =>
      call[c].user \in raced \/ version[call[c].user] = MaxVersion

(* No step of any call moves a version other than up by one, unless that   *)
(* step or an earlier one wrote from a stale row.                          *)
VersionStepsUp ==
  [][\A u \in Users : version'[u] \in {version[u], version[u] + 1} \/ u \in raced']_vars

-----------------------------------------------------------------------------
(* DESIGN.md:138 and :211 promise that a logout ends every token the user  *)
(* had: none of them is accepted again.  Overlapping increments break it.  *)
RevokedStayRevoked ==
  \A t \in revoked : ~(Accepts(t, "access") \/ Accepts(t, "refresh"))

(* tests/api/v1/test_auth.py:121-147 expects 401 when a refresh token is   *)
(* presented a second time.  Two overlapping refreshes both succeed.       *)
RefreshTokenSpentOnce == reused = {}
=============================================================================
