----------------------------- MODULE RequestSessions -----------------------------
(***************************************************************************)
(* The way of a request to the schema of its tenant: TenantMiddleware      *)
(* (tenancy/middleware.py), the token (RequestAuth) and the sessions that  *)
(* get_db and get_public_db open on a pool of connections                  *)
(* (core/database.py), each of which keeps the search_path that the        *)
(* requests before left on it.                                             *)
(***************************************************************************)
EXTENDS RequestAuth

(* What a handler does with its session, by what it commits or rolls back. *)
Program ==
    [tenant   |-> <<"statement", "commit", "statement">>,
     fallback |-> <<"statement", "rollback", "statement">>,
     both     |-> <<"public_commit", "statement", "set_public", "commit">>,
     platform |-> <<"set_tenant", "set_public", "commit">>]

TypeOK ==
    /\ signing \in Keys
    /\ cached \in 0 .. MaxKeys
    /\ free \in Seq(Conns)
    /\ path \in [Conns -> Schemas]
    /\ request \in [Requests -> RequestRec]
    /\ scenario \in Scenarios

NoCall == [kind |-> "tenant", host |-> NoTenant, role |-> "REVIEWER", tenant |-> NoTenant]

(* The connections in some order. *)
Orders == {s \in [1 .. Cardinality(Conns) -> Conns] :
              \A i, j \in DOMAIN s : s[i] = s[j] => i = j}

Init ==
    /\ signing = 1
    /\ free = CHOOSE s \in Orders : TRUE
    /\ path = [c \in Conns |-> "public"]
    /\ request = [q \in Requests |->
                     [pc |-> "new", call |-> NoCall, key |-> 1, keys |-> 0, again |-> FALSE,
                      conn |-> NoConn, txn |-> "none", before |-> "public",
                      public |-> NoConn, at |-> 1, saw |-> {}, result |-> "done"]]
    /\ scenario \in Scenarios
    /\ cached = IF "expiry" \in scenario.events THEN 0 ELSE signing

keyVars == <<signing, cached, scenario>>

AtRest(q) == request[q].pc \in {"new", "done", "refused", "failed", "unauthorized"}

-----------------------------------------------------------------------------
(* TenantMiddleware. *)

(* A token is signed with the last key. *)
Arrive(q) ==
    /\ request[q].pc = "new"
    /\ \A p \in 1 .. q - 1 : request[p].pc # "new"
    /\ "overlap" \in scenario.events \/ \A p \in Requests : AtRest(p)
    /\ \E call \in scenario.asked :
          request' = [request EXCEPT ![q] = [@ EXCEPT
                         !.call = call, !.key = signing,
                         !.pc = IF call.kind = "platform" THEN "reading_keys"
                                ELSE IF call.host = NoTenant THEN "refused" ELSE "resolving"]]
    /\ UNCHANGED <<free, path, keyVars>>

(* The tenant is looked up in a session of its own, for public, which      *)
(* leaves that search_path on its connection.                              *)
Resolve(q) ==
    LET c == Head(free)
    IN  /\ request[q].pc = "resolving"
        /\ free # <<>>
        /\ path' = [path EXCEPT ![c] = "public"]
        /\ free' = Append(Tail(free), c)
        /\ Goes(q, IF request[q].call.host \in scenario.active THEN "reading_keys" ELSE "refused")
        /\ UNCHANGED keyVars

-----------------------------------------------------------------------------
(* The sessions. A ROLLBACK that is sent as a statement ends the           *)
(* transaction the driver has just begun, and it begins no other: up to    *)
(* the first commit every statement of a session is committed, the SET of  *)
(* the search_path too.                                                    *)

(* A handler checks what its caller may do before it begins. *)
Begins(call, r) ==
    IF Permitted(call) THEN [r EXCEPT !.pc = "running"]
    ELSE [r EXCEPT !.pc = "closing", !.result = "refused"]

(* get_db, or get_public_db once require_super_admin has agreed. *)
Open(q) ==
    LET c    == Head(free)
        call == request[q].call
        r    == [request[q] EXCEPT !.conn = c, !.txn = "auto"]
    IN  /\ request[q].pc = "opening"
        /\ IF call.kind = "platform" /\ ~Permitted(call)
           THEN Goes(q, "refused") /\ UNCHANGED <<free, path>>
           ELSE /\ free # <<>>
                /\ free' = Tail(free)
                /\ path' = [path EXCEPT ![c] = IF call.kind = "platform"
                                               THEN "public" ELSE call.host]
                /\ request' = [request EXCEPT ![q] =
                                  IF call.kind = "both" THEN [r EXCEPT !.pc = "opening_public"]
                                  ELSE Begins(call, r)]
        /\ UNCHANGED keyVars

(* create_and_assign_carrier has both sessions. *)
OpenPublic(q) ==
    LET c == Head(free)
    IN  /\ request[q].pc = "opening_public"
        /\ free # <<>>
        /\ free' = Tail(free)
        /\ path' = [path EXCEPT ![c] = "public"]
        /\ request' = [request EXCEPT ![q] =
                          Begins(request[q].call, [request[q] EXCEPT !.public = c])]
        /\ UNCHANGED keyVars

(* The instruction a running request is at. *)
Does(q, what) ==
    /\ request[q].pc = "running"
    /\ request[q].at <= Len(Program[request[q].call.kind])
    /\ Program[request[q].call.kind][request[q].at] = what

(* The session has its connection or takes the next one of the pool, with  *)
(* the search_path that is on it.                                          *)
Statement(q) ==
    LET r == request[q]
        c == IF r.conn = NoConn THEN Head(free) ELSE r.conn
    IN  /\ Does(q, "statement")
        /\ r.conn = NoConn => free # <<>>
        /\ free' = IF r.conn = NoConn THEN Tail(free) ELSE free
        /\ request' = [request EXCEPT ![q] =
              IF r.conn = NoConn
              THEN [r EXCEPT !.conn = c, !.txn = "open", !.before = path[c],
                             !.saw = r.saw \cup {path[c]}, !.at = r.at + 1]
              ELSE [r EXCEPT !.saw = r.saw \cup {path[c]}, !.at = r.at + 1]]
        /\ UNCHANGED <<path, keyVars>>

(* The statements that name their schema with a SET. *)
SetPath(q) ==
    \E s \in Schemas :
        /\ \/ Does(q, "set_tenant") /\ s \in Tenants
           \/ Does(q, "set_public") /\ s = "public"
        /\ path' = [path EXCEPT ![request[q].conn] = s]
        /\ request' = [request EXCEPT ![q].at = @ + 1]
        /\ UNCHANGED <<free, keyVars>>

(* The carrier is created before it is assigned. *)
PublicCommit(q) ==
    /\ Does(q, "public_commit")
    /\ free' = Append(free, request[q].public)
    /\ request' = [request EXCEPT ![q] = [@ EXCEPT !.public = NoConn, !.at = request[q].at + 1]]
    /\ UNCHANGED <<path, keyVars>>

(* A session gives its connection back with every commit, and a connection *)
(* keeps the search_path that is committed.                                *)
Commit(q) ==
    /\ Does(q, "commit")
    /\ free' = IF request[q].conn = NoConn THEN free ELSE Append(free, request[q].conn)
    /\ request' = [request EXCEPT ![q] = [@ EXCEPT
                      !.conn = NoConn, !.txn = "none", !.at = request[q].at + 1,
                      !.pc = IF request[q].call.kind = "platform" THEN "running"
                             ELSE "rescoping"]]
    /\ UNCHANGED <<path, keyVars>>

(* Mutant: a plain AsyncSession. *)
Rescope_plain(q) ==
    /\ request[q].pc = "rescoping"
    /\ Goes(q, "running")
    /\ UNCHANGED <<free, path, keyVars>>

(* _TenantScopedSession.commit: the search_path again, in a transaction    *)
(* that begins with it.                                                    *)
Rescope(q) ==
    LET c == Head(free)
    IN  /\ request[q].pc = "rescoping"
        /\ free # <<>>
        /\ free' = Tail(free)
        /\ path' = [path EXCEPT ![c] = request[q].call.host]
        /\ request' = [request EXCEPT ![q] = [@ EXCEPT
                          !.conn = c, !.txn = "open", !.before = path[c], !.pc = "running"]]
        /\ UNCHANGED keyVars

(* A rollback takes a SET of its transaction back. *)
PathAfterRollback(q) ==
    IF request[q].txn = "open"
    THEN [path EXCEPT ![request[q].conn] = request[q].before] ELSE path

Rollback(q) ==
    /\ Does(q, "rollback")
    /\ path' = PathAfterRollback(q)
    /\ free' = IF request[q].conn = NoConn THEN free ELSE Append(free, request[q].conn)
    /\ request' = [request EXCEPT ![q] = [@ EXCEPT
                      !.conn = NoConn, !.txn = "none", !.at = request[q].at + 1]]
    /\ UNCHANGED keyVars

(* A statement or a handler raises. *)
Raise(q) ==
    /\ request[q].pc \in {"running", "rescoping"}
    /\ "failures" \in scenario.events
    /\ request' = [request EXCEPT ![q] = [@ EXCEPT !.pc = "closing", !.result = "failed"]]
    /\ UNCHANGED <<free, path, keyVars>>

(* Closing a session rolls back and gives the connection back. *)
Close(q) ==
    LET held == (IF request[q].public = NoConn THEN <<>> ELSE <<request[q].public>>)
                  \o (IF request[q].conn = NoConn THEN <<>> ELSE <<request[q].conn>>)
    IN  /\ \/ request[q].pc = "closing"
           \/ /\ request[q].pc = "running"
              /\ request[q].at > Len(Program[request[q].call.kind])
        /\ path' = PathAfterRollback(q)
        /\ free' = free \o held
        /\ request' = [request EXCEPT ![q] = [@ EXCEPT
                          !.pc = request[q].result, !.conn = NoConn, !.public = NoConn,
                          !.txn = "none", !.before = "public", !.at = 1, !.saw = {},
                          !.keys = 0, !.result = "done"]]
        /\ UNCHANGED keyVars

(* Who waits for a connection. *)
Waits(q) ==
    /\ free = <<>>
    /\ \/ request[q].pc \in {"resolving", "opening_public", "rescoping"}
       \/ request[q].pc = "opening" /\ (request[q].call.kind = "platform" => Permitted(request[q].call))
       \/ Does(q, "statement") /\ request[q].conn = NoConn

(* Mutant: the pool waits for ever. *)
PoolTimeout_none(q) == FALSE /\ UNCHANGED vars

(* No connection came back for 30 seconds. *)
PoolTimeout(q) ==
    /\ Waits(q)
    /\ request' = [request EXCEPT ![q] = [@ EXCEPT !.pc = "closing", !.result = "failed"]]
    /\ UNCHANGED <<free, path, keyVars>>

(* The pool replaces a connection that is old or does not answer. *)
Recycle(c) ==
    /\ "recycle" \in scenario.events
    /\ \E i \in DOMAIN free : free[i] = c
    /\ path' = [path EXCEPT ![c] = "public"]
    /\ UNCHANGED <<free, request, keyVars>>

Step(q) ==
    Resolve(q) \/ AuthStep(q) \/ Open(q) \/ OpenPublic(q) \/ Statement(q)
      \/ SetPath(q) \/ PublicCommit(q) \/ Commit(q) \/ Rescope(q) \/ Rollback(q) \/ Raise(q)
      \/ Close(q) \/ PoolTimeout(q)

Next ==
    \/ \E q \in Requests : Arrive(q) \/ Step(q)
    \/ \E c \in Conns : Recycle(c)
    \/ KeysExpire
    \/ Rotate

Spec == Init /\ [][Next]_vars

(* A request goes on until it has ended. *)
FairSpec == Spec /\ \A q \in Requests : WF_vars(Step(q))

-----------------------------------------------------------------------------
(* The statements of a handler run in the schema of the tenant that its    *)
(* host names and its token belongs to, whichever connections its session  *)
(* gets and whatever other requests left on them. (After a rollback they   *)
(* may not: the handlers of kind "fallback".)                              *)
OwnSchema ==
    \A q \in Requests :
        LET call == request[q].call
        IN  call.kind # "fallback" =>
                /\ request[q].saw \subseteq {call.host}
                /\ request[q].saw # {} => call.role = "SUPER_ADMIN" \/ call.tenant = call.host

(* verify_token refreshes its keys when one is missing: a token signed     *)
(* with a key of the provider is not refused, however often the entry      *)
(* expires, is not read or not written, and whatever else fails. It is     *)
(* refused when a key was rotated and the DELETE of the old keys fails, or *)
(* when another request stores the keys it fetched before the rotation     *)
(* once the entry is dropped.                                              *)
GoodTokenAccepted ==
    "rotation" \notin scenario.events \/ scenario.events \cap {"overlap", "delete_failures"} = {} =>
        \A q \in Requests : request[q].pc # "unauthorized"

(* Requests that hold a connection while they wait for one do not block    *)
(* each other for ever, and none is kept out of the pool for ever.         *)
RequestsEnd ==
    \A q \in Requests : request[q].pc # "new" ~> AtRest(q)
==================================================================================
