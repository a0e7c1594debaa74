------------------------------ MODULE Sessions ------------------------------
(***************************************************************************)
(* One database session per request, one pool of connections for all.      *)
(*                                                                         *)
(* What a request reads and writes is left to the other modules; here it   *)
(* is the connection it holds while it does so.  A session takes one at    *)
(* its first statement, gives it back at COMMIT or rollback, takes one     *)
(* again to read back what it wrote (session.refresh), and gives back what *)
(* it holds when the request has been answered (get_db_session).           *)
(*                                                                         *)
(* The pool keeps up to PoolSize idle connections and opens up to          *)
(* MaxOverflow more; who finds none waits, for 30 seconds.  The database   *)
(* may restart, and any one connection may be lost.                        *)
(***************************************************************************)
EXTENDS Naturals, FiniteSets

CONSTANTS Calls, NoCall,
          PoolSize, MaxOverflow   \* of create_async_engine: 5 and 10

Limit == PoolSize + MaxOverflow

ASSUME PoolAssumption ==
  /\ PoolSize \in Nat /\ MaxOverflow \in Nat /\ Limit > 0
  /\ IsFiniteSet(Calls) /\ NoCall \notin Calls

VARIABLES
  up,         \* the database accepts connections
  pooled,     \* connections that are idle in the pool
  stale,      \* how many of these the database has closed
  row,        \* which request has locked the row that several write
  call,       \* what each request is doing
  committed   \* whether its COMMIT took effect

(* History: whether the database was down, or the connection of a request  *)
(* was lost, at some moment of the request.                                *)
VARIABLE lost

vars == <<up, pooled, stale, row, call, committed, lost>>

Kinds == {"read",      \* answers what it has read
          "write",     \* COMMIT last: the deletions, 204
          "rewrite"}   \* COMMIT, then session.refresh: the other writes
Waiting == {"queued", "requeued"}
Working == {"reading", "locking", "commit", "rereading"}
Ending == {"answering", "refusing", "failing"}   \* 2xx, 4xx, 500

CallState ==
  [pc : {"idle"} \cup Waiting \cup Working \cup Ending,
   kind : Kinds,
   conn : {"none", "live", "dead"}]

Init ==
  /\ up = TRUE /\ pooled = 0 /\ stale = 0 /\ row = NoCall
  /\ call = [c \in Calls |-> [pc |-> "idle", kind |-> "read", conn |-> "none"]]
  /\ committed = [c \in Calls |-> FALSE]
  /\ lost = [c \in Calls |-> FALSE]

Holding == {c \in Calls : call[c].conn # "none"}
Full == pooled = 0 /\ Cardinality(Holding) >= Limit

At(c, pc) == call[c].pc = pc /\ call[c].conn = "live"

Goto(c, pc) ==
  /\ call' = [call EXCEPT ![c].pc = pc]
  /\ UNCHANGED <<up, pooled, stale, row, committed, lost>>

GiveBackAll(c) ==  \* mutant: overflow connections are kept
  /\ pooled' = IF c \in Holding THEN pooled + 1 ELSE pooled
  /\ row' = IF row = c THEN NoCall ELSE row
  /\ UNCHANGED <<up, stale>>

GiveBackOpen(c) ==  \* mutant: no rollback of the transaction
  /\ pooled' = IF c \in Holding /\ pooled < PoolSize THEN pooled + 1 ELSE pooled
  /\ UNCHANGED <<up, stale, row>>

(* The transaction ends, or the session does: the connection goes back, or *)
(* is closed if the pool has enough; a lock goes with the transaction.     *)
GiveBack(c) ==
  /\ pooled' = IF c \in Holding /\ pooled < PoolSize THEN pooled + 1 ELSE pooled
  /\ row' = IF row = c THEN NoCall ELSE row
  /\ UNCHANGED <<up, stale>>

(* The answer is known; until it is sent the session keeps its connection. *)
Ends(c, pc, conn) ==
  /\ call' = [call EXCEPT ![c] = [pc |-> pc, kind |-> "read", conn |-> conn]]
  /\ lost' = [lost EXCEPT ![c] = FALSE]
Respond(c, pc) ==
  /\ Ends(c, pc, call[c].conn)
  /\ UNCHANGED <<up, pooled, stale, row, committed>>

Leave(c) ==
  /\ GiveBack(c) /\ Ends(c, "idle", "none")
  /\ committed' = [committed EXCEPT ![c] = FALSE]

-----------------------------------------------------------------------------
(* A request that has a statement to run.  One whose token is missing, bad *)
(* or expired has none, and takes no connection.                           *)
Arrive(c, kind) ==
  /\ call[c].pc = "idle"
  /\ call' = [call EXCEPT ![c].pc = "queued", ![c].kind = kind]
  /\ lost' = [lost EXCEPT ![c] = ~up]
  /\ UNCHANGED <<up, pooled, stale, row, committed>>

TakeFromOne(p, s) ==  \* mutant: a replaced connection still counts as closed
  \/ p > 0 /\ pooled' = p - 1 /\ stale' = s
  \/ p = 0 /\ Cardinality(Holding) < Limit /\ pooled' = p /\ stale' = s

(* Check-out.  pool_pre_ping tries an idle connection before it is handed  *)
(* out; if that fails, all idle ones are replaced.                         *)
TakeFrom(p, s) ==
  \/ p > s /\ pooled' = p - 1 /\ stale' = s
  \/ s > 0 /\ pooled' = p - 1 /\ stale' = 0
  \/ p = 0 /\ Cardinality(Holding) < Limit /\ pooled' = p /\ stale' = s

TakeUnpinged(c) ==  \* mutant: without pool_pre_ping
  /\ up /\ call[c].pc \in Waiting
  /\ TakeFrom(pooled, stale)
  /\ call' = [call EXCEPT ![c].pc = IF @ = "queued" THEN "reading" ELSE "rereading",
                          ![c].conn = IF stale' < stale THEN "dead" ELSE "live"]
  /\ UNCHANGED <<up, row, committed, lost>>

Take(c) ==
  /\ up /\ call[c].pc \in Waiting
  /\ TakeFrom(pooled, stale)
  /\ call' = [call EXCEPT ![c].pc = IF @ = "queued" THEN "reading" ELSE "rereading",
                          ![c].conn = "live"]
  /\ UNCHANGED <<up, row, committed, lost>>

(* No connection within the pool's timeout, or none to be had: 500.        *)
TimeOut(c) ==
  call[c].pc \in Waiting /\ Full /\ Respond(c, "failing")

Unreachable(c) ==
  call[c].pc \in Waiting /\ ~up /\ ~Full /\ Respond(c, "failing")

-----------------------------------------------------------------------------
(* The SELECTs, of get_current_user first: 401, 403, 404, or on to what    *)
(* the endpoint is for.  Some rows are written by several requests.  The   *)
(* 500s that come of rows other requests delete are left to the modules of *)
(* these rows.                                                             *)
Read(c) ==
  /\ At(c, "reading")
  /\ \/ Respond(c, "refusing")
     \/ call[c].kind = "read" /\ Respond(c, "answering")
     \/ call[c].kind # "read" /\ \E pc \in {"locking", "commit"} : Goto(c, pc)

(* The row lock is held until the COMMIT.                                  *)
Lock(c) ==
  /\ At(c, "locking") /\ row = NoCall
  /\ row' = c
  /\ call' = [call EXCEPT ![c].pc = "commit"]
  /\ UNCHANGED <<up, pooled, stale, committed, lost>>

(* IntegrityError of an INSERT or UPDATE: rolled back, and 409             *)
Conflict(c) ==
  /\ At(c, "locking") /\ row = NoCall /\ call[c].kind = "rewrite"
  /\ GiveBack(c) /\ Ends(c, "refusing", "none")
  /\ UNCHANGED committed

CommitAfterAnswer(c) ==  \* mutant: the answer precedes the COMMIT
  At(c, "commit") /\ Respond(c, "answering")

CommitKeepsSession(c) ==  \* mutant: the re-read has a session of its own
  /\ At(c, "commit")
  /\ committed' = [committed EXCEPT ![c] = TRUE]
  /\ IF call[c].kind = "rewrite"
       THEN /\ call' = [call EXCEPT ![c].pc = "requeued"]
            /\ UNCHANGED <<up, pooled, stale, row, lost>>
       ELSE GiveBack(c) /\ Ends(c, "answering", "none")

Commit(c) ==
  /\ At(c, "commit")
  /\ committed' = [committed EXCEPT ![c] = TRUE]
  /\ GiveBack(c)
  /\ IF call[c].kind = "rewrite"
       THEN /\ call' = [call EXCEPT ![c].pc = "requeued", ![c].conn = "none"]
            /\ UNCHANGED lost
       ELSE Ends(c, "answering", "none")

Reread(c) == At(c, "rereading") /\ Respond(c, "answering")

(* A statement on a lost connection: 500, and the session is closed.       *)
Fail(c) ==
  /\ call[c].conn = "dead" /\ call[c].pc \in Working
  /\ GiveBack(c) /\ Ends(c, "failing", "none")
  /\ UNCHANGED committed

(* The response is sent, then get_db_session closes the session.           *)
Close(c) == call[c].pc \in Ending /\ Leave(c)

(* The request is cancelled.                                               *)
Abandon(c) == call[c].pc # "idle" /\ Leave(c)

-----------------------------------------------------------------------------
(* Faults.  A COMMIT that was sent may or may not have taken effect.       *)
Breaks(S) ==
  /\ call' = [c \in Calls |-> IF c \in S /\ call[c].conn = "live"
                                THEN [call[c] EXCEPT !.conn = "dead"] ELSE call[c]]
  /\ row' = IF row \in S THEN NoCall ELSE row
  /\ \E T \in SUBSET {c \in S : At(c, "commit")} :
       committed' = [c \in Calls |-> committed[c] \/ c \in T]
  /\ lost' = [c \in Calls |-> lost[c] \/ (c \in S /\ call[c].pc \in Waiting \cup Working)]

Break(c) == Breaks({c}) /\ call[c].conn = "live" /\ UNCHANGED <<up, pooled, stale>>
Crash == up /\ Breaks(Calls) /\ up' = FALSE /\ stale' = pooled /\ UNCHANGED pooled
Restart == ~up /\ up' = TRUE /\ UNCHANGED <<pooled, stale, row, call, committed, lost>>

-----------------------------------------------------------------------------
Proceed(c) ==
  \/ Take(c) \/ TimeOut(c) \/ Unreachable(c) \/ Read(c) \/ Commit(c)
  \/ Reread(c) \/ Close(c) \/ Fail(c)

Next ==
  \/ Crash \/ Restart
  \/ \E c \in Calls :
       \/ \E kind \in Kinds : Arrive(c, kind)
       \/ Proceed(c) \/ Lock(c) \/ Conflict(c) \/ Abandon(c) \/ Break(c)

Spec == Init /\ [][Next]_vars

(* The event loop serves every request, the pool's timer included.  Who    *)
(* waits for a row is queued for it: strong fairness.  The database need   *)
(* not come back.                                                          *)
FairSpec ==
  /\ Spec
  /\ \A c \in Calls : WF_vars(Proceed(c)) /\ SF_vars(Lock(c) \/ Conflict(c))

-----------------------------------------------------------------------------
TypeOK ==
  /\ up \in BOOLEAN /\ pooled \in Nat /\ stale \in 0..pooled
  /\ row \in Calls \cup {NoCall}
  /\ call \in [Calls -> CallState]
  /\ committed \in [Calls -> BOOLEAN]
  /\ lost \in [Calls -> BOOLEAN]

(* The database is never asked for more connections than the pool allows,  *)
(* and a burst leaves no more than PoolSize of them behind.                *)
ConnectionsBounded ==
  /\ pooled <= PoolSize
  /\ pooled + Cardinality(Holding) <= Limit

Blocked(c) ==
  \/ call[c].pc \in Waiting /\ Full
  \/ At(c, "locking") /\ row # NoCall

(* Requests that hold connections while others queue for them, and rows    *)
(* while others queue for these, never all wait for each other: one that   *)
(* holds a connection can always go on.                                    *)
NobodyWaitsForNothing ==
  (\E c \in Calls : Blocked(c)) =>
    \E d \in Calls : call[d].conn # "none" /\ ~Blocked(d)

(* A success is answered for what was committed, a 4xx for what was not;   *)
(* a 500 for what was committed only by an endpoint that reads it back, or *)
(* when the COMMIT itself was lost.                                        *)
AnswersTellTheTruth ==
  [][\A c \in Calls :
       call'[c].pc # call[c].pc =>
         /\ call'[c].pc = "answering" /\ call[c].kind # "read" => committed'[c]
         /\ call'[c].pc = "refusing" => ~committed'[c]
         /\ call'[c].pc = "failing" /\ committed'[c] => lost[c] \/ call[c].kind = "rewrite"]_vars

(* A request fails only if the database or its connection went away while  *)
(* it ran, or when Limit other requests are being served: a restart that   *)
(* is over fails nobody, and no connection is kept by one that is done.    *)
FailuresExplained ==
  [][\A c \in Calls :
       call[c].pc # "failing" /\ call'[c].pc = "failing" =>
         \/ lost[c]
         \/ Cardinality({d \in Calls : call[d].pc \in Working \cup Ending}) >= Limit]_vars

(* Every request is answered, whatever fails.                              *)
EveryRequestAnswered == \A c \in Calls : []<>(call[c].pc = "idle")
=============================================================================
