------------------------------ MODULE SessionProofs ------------------------------
(***************************************************************************)
(* A proof about RequestSessions: handlers run in the schema of their      *)
(* tenant, for every number of tenants, requests, connections and keys and *)
(* all events. The heart of it is that a connection is in the pool or with *)
(* one request, and that who changes a search_path has the connection or   *)
(* takes it from the pool.                                                 *)
(***************************************************************************)
EXTENDS RequestSessions, FiniteSetTheorems, SequenceTheorems, TLAPS

(* The connections of a sequence, and that it has none of them twice. *)
In(s) == {s[i] : i \in 1 .. Len(s)}

Distinct(s) == \A i, j \in 1 .. Len(s) : s[i] = s[j] => i = j

LEMMA InOfEmpty == In(<<>>) = {} /\ Distinct(<<>>)
BY DEF In, Distinct

LEMMA TailLemma ==
    ASSUME NEW s \in Seq(Conns), s # <<>>, Distinct(s)
    PROVE  /\ Head(s) \in Conns /\ Head(s) \in In(s)
           /\ Tail(s) \in Seq(Conns) /\ Distinct(Tail(s))
           /\ In(Tail(s)) = In(s) \ {Head(s)}
<1>1. /\ Head(s) = s[1] /\ Tail(s) \in Seq(Conns) /\ Len(Tail(s)) = Len(s) - 1
      /\ \A i \in 1 .. Len(Tail(s)) : Tail(s)[i] = s[i + 1]
  BY HeadTailProperties
<1>2. Len(s) \in Nat /\ 1 \in 1 .. Len(s)
  BY EmptySeq, LenProperties
<1>3. s[1] \in Conns
  BY <1>2, ElementOfSeq
<1>4. Distinct(Tail(s))
  BY <1>1, <1>2 DEF Distinct
<1>5. In(Tail(s)) \subseteq In(s) \ {Head(s)}
  BY <1>1, <1>2 DEF In, Distinct
<1>6. ASSUME NEW c \in In(s) \ {Head(s)}
      PROVE  c \in In(Tail(s))
  <2>1. PICK i \in 1 .. Len(s) : c = s[i]
    BY DEF In
  <2>2. i # 1
    BY <1>1, <1>6, <2>1
  <2>3. i - 1 \in 1 .. Len(Tail(s)) /\ Tail(s)[i - 1] = s[i]
    BY <1>1, <1>2, <2>1, <2>2
  <2> QED
    BY <2>1, <2>3 DEF In
<1> QED
  BY <1>1, <1>2, <1>3, <1>4, <1>5, <1>6 DEF In

LEMMA AppendLemma ==
    ASSUME NEW s \in Seq(Conns), Distinct(s), NEW c \in Conns, c \notin In(s)
    PROVE  /\ Append(s, c) \in Seq(Conns) /\ Distinct(Append(s, c))
           /\ In(Append(s, c)) = In(s) \cup {c}
<1>1. Len(s) \in Nat
  BY LenProperties
<1>2. /\ Append(s, c) \in Seq(Conns) /\ Len(Append(s, c)) = Len(s) + 1
      /\ \A i \in 1 .. Len(s) : Append(s, c)[i] = s[i]
      /\ Append(s, c)[Len(s) + 1] = c
  OBVIOUS
<1>3. \A i \in 1 .. Len(s) + 1 : i \in 1 .. Len(s) \/ i = Len(s) + 1
  BY <1>1
<1>4. Distinct(Append(s, c))
  BY <1>1, <1>2, <1>3 DEF Distinct, In
<1>5. In(Append(s, c)) = In(s) \cup {c}
  <2>1. \A x \in In(Append(s, c)) : x \in In(s) \cup {c}
    BY <1>1, <1>2, <1>3 DEF In
  <2>2. Len(s) + 1 \in 1 .. Len(Append(s, c)) /\ \A i \in 1 .. Len(s) : i \in 1 .. Len(Append(s, c))
    BY <1>1, <1>2
  <2>3. \A x \in In(s) \cup {c} : x \in In(Append(s, c))
    BY <1>2, <2>2 DEF In
  <2> QED
    BY <2>1, <2>3
<1> QED
  BY <1>2, <1>4, <1>5

(* What a request gives back. *)
LEMMA GiveBackLemma ==
    ASSUME NEW s \in Seq(Conns), Distinct(s),
           NEW p \in Conns \cup {NoConn}, NEW c \in Conns \cup {NoConn},
           p = c => p = NoConn,
           p \notin In(s), c \notin In(s)
    PROVE  LET held == (IF p = NoConn THEN <<>> ELSE <<p>>) \o (IF c = NoConn THEN <<>> ELSE <<c>>)
           IN  /\ s \o held \in Seq(Conns) /\ Distinct(s \o held)
               /\ In(s \o held) = In(s) \cup ({p, c} \ {NoConn})
<1> DEFINE a == IF p = NoConn THEN <<>> ELSE <<p>>
           b == IF c = NoConn THEN <<>> ELSE <<c>>
<1>1. a \in Seq(Conns) /\ b \in Seq(Conns)
  <2>1. p # NoConn => <<p>> \in Seq(Conns)
    OBVIOUS
  <2>2. c # NoConn => <<c>> \in Seq(Conns)
    OBVIOUS
  <2> QED
    BY <2>1, <2>2, EmptySeq
<1>2. s \o (a \o b) = (s \o a) \o b
  <2> HIDE DEF a, b
  <2> QED
    BY <1>1, ConcatAssociative
<1>3. /\ s \o a \in Seq(Conns) /\ Distinct(s \o a)
      /\ In(s \o a) = In(s) \cup ({p} \ {NoConn})
  <2>1. CASE p = NoConn
    <3>1. s \o a = s
      BY <2>1, ConcatEmptySeq
    <3> QED
      BY <2>1, <3>1
  <2>2. CASE p # NoConn
    <3>1. s \o a = Append(s, p)
      BY <2>2
    <3> HIDE DEF a
    <3> QED
      BY <2>2, <3>1, AppendLemma
  <2> QED
    BY <2>1, <2>2
<1>4. c # NoConn => c \notin In(s \o a)
  <2> HIDE DEF a
  <2> QED
    BY <1>3
<1>5. /\ (s \o a) \o b \in Seq(Conns) /\ Distinct((s \o a) \o b)
      /\ In((s \o a) \o b) = In(s \o a) \cup ({c} \ {NoConn})
  <2> DEFINE t == s \o a
  <2>0. t \in Seq(Conns) /\ Distinct(t) /\ (c # NoConn => c \notin In(t))
    BY <1>3, <1>4
  <2> HIDE DEF t
  <2>1. CASE c = NoConn
    <3>1. t \o b = t
      BY <2>0, <2>1, ConcatEmptySeq
    <3> QED
      BY <2>0, <2>1, <3>1 DEF t
  <2>2. CASE c # NoConn
    <3>1. t \o b = Append(t, c)
      BY <2>0, <2>2
    <3> HIDE DEF b
    <3>2. t \o b \in Seq(Conns) /\ Distinct(t \o b) /\ In(t \o b) = In(t) \cup {c}
      BY <2>0, <2>2, <3>1, AppendLemma
    <3> QED
      BY <2>2, <3>2 DEF t
  <2> QED
    BY <2>1, <2>2
<1> HIDE DEF a, b
<1>6. /\ s \o (a \o b) \in Seq(Conns) /\ Distinct(s \o (a \o b))
      /\ In(s \o (a \o b)) = In(s) \cup ({p, c} \ {NoConn})
  BY <1>2, <1>3, <1>5
<1> QED
  BY <1>6 DEF a, b

-----------------------------------------------------------------------------
(* The programs. *)
(* What an instruction of a program may be, by kind and place. *)
Fits(k, n, what) ==
    /\ what = "statement" => k = "fallback" \/ (k \in {"tenant", "both"} /\ n <= 3)
    /\ what \in {"set_tenant", "set_public"} => k = "platform" \/ (k = "both" /\ n = 3)
    /\ what = "public_commit" => k = "both" /\ n = 1
    /\ what = "rollback" => k = "fallback"
    /\ what = "commit" => k # "both" \/ n = 4

LEMMA ProgramFacts ==
    \A k \in Kinds : /\ Len(Program[k]) \in 1 .. 4
                     /\ \A n \in 1 .. Len(Program[k]) : Fits(k, n, Program[k][n])
<1> SUFFICES ASSUME NEW k \in Kinds
             PROVE  /\ Len(Program[k]) \in 1 .. 4
                    /\ \A n \in 1 .. Len(Program[k]) : Fits(k, n, Program[k][n])
  OBVIOUS
<1>1. CASE k = "tenant"
  <2> DEFINE p == <<"statement", "commit", "statement">>
  <2>1. Program[k] = p
    BY <1>1 DEF Program
  <2>2. Len(p) = 3
    OBVIOUS
  <2>3. p[1] = "statement" /\ p[2] = "commit" /\ p[3] = "statement"
    OBVIOUS
  <2> HIDE DEF p
  <2>4. Fits(k, 1, p[1]) /\ Fits(k, 2, p[2]) /\ Fits(k, 3, p[3])
    BY <1>1, <2>3 DEF Fits
  <2>5. \A n \in 1 .. Len(p) : n = 1 \/ n = 2 \/ n = 3
    BY <2>2
  <2>6. Len(p) \in 1 .. 4
    BY <2>2
  <2>7. \A n \in 1 .. Len(p) : Fits(k, n, p[n])
    BY <2>4, <2>5
  <2> QED
    BY <2>1, <2>6, <2>7
<1>2. CASE k = "fallback"
  <2> DEFINE p == <<"statement", "rollback", "statement">>
  <2>1. Program[k] = p
    BY <1>2 DEF Program
  <2>2. Len(p) = 3
    OBVIOUS
  <2>3. p[1] = "statement" /\ p[2] = "rollback" /\ p[3] = "statement"
    OBVIOUS
  <2> HIDE DEF p
  <2>4. Fits(k, 1, p[1]) /\ Fits(k, 2, p[2]) /\ Fits(k, 3, p[3])
    BY <1>2, <2>3 DEF Fits
  <2>5. \A n \in 1 .. Len(p) : n = 1 \/ n = 2 \/ n = 3
    BY <2>2
  <2>6. Len(p) \in 1 .. 4
    BY <2>2
  <2>7. \A n \in 1 .. Len(p) : Fits(k, n, p[n])
    BY <2>4, <2>5
  <2> QED
    BY <2>1, <2>6, <2>7
<1>3. CASE k = "both"
  <2> DEFINE p == <<"public_commit", "statement", "set_public", "commit">>
  <2>1. Program[k] = p
    BY <1>3 DEF Program
  <2>2. Len(p) = 4
    OBVIOUS
  <2>3. p[1] = "public_commit" /\ p[2] = "statement" /\ p[3] = "set_public" /\ p[4] = "commit"
    OBVIOUS
  <2> HIDE DEF p
  <2>4. Fits(k, 1, p[1]) /\ Fits(k, 2, p[2]) /\ Fits(k, 3, p[3]) /\ Fits(k, 4, p[4])
    <3>1. Fits(k, 1, "public_commit")
      BY <1>3 DEF Fits
    <3>2. Fits(k, 2, "statement")
      BY <1>3 DEF Fits
    <3>3. Fits(k, 3, "set_public")
      BY <1>3 DEF Fits
    <3>4. Fits(k, 4, "commit")
      BY <1>3 DEF Fits
    <3> QED
      BY <2>3, <3>1, <3>2, <3>3, <3>4
  <2>5. \A n \in 1 .. Len(p) : n = 1 \/ n = 2 \/ n = 3 \/ n = 4
    BY <2>2
  <2>6. Len(p) \in 1 .. 4
    BY <2>2
  <2>7. \A n \in 1 .. Len(p) : Fits(k, n, p[n])
    BY <2>4, <2>5
  <2> QED
    BY <2>1, <2>6, <2>7
<1>4. CASE k = "platform"
  <2> DEFINE p == <<"set_tenant", "set_public", "commit">>
  <2>1. Program[k] = p
    BY <1>4 DEF Program
  <2>2. Len(p) = 3
    OBVIOUS
  <2>3. p[1] = "set_tenant" /\ p[2] = "set_public" /\ p[3] = "commit"
    OBVIOUS
  <2> HIDE DEF p
  <2>4. Fits(k, 1, p[1]) /\ Fits(k, 2, p[2]) /\ Fits(k, 3, p[3])
    BY <1>4, <2>3 DEF Fits
  <2>5. \A n \in 1 .. Len(p) : n = 1 \/ n = 2 \/ n = 3
    BY <2>2
  <2>6. Len(p) \in 1 .. 4
    BY <2>2
  <2>7. \A n \in 1 .. Len(p) : Fits(k, n, p[n])
    BY <2>4, <2>5
  <2> QED
    BY <2>1, <2>6, <2>7
<1> QED
  BY <1>1, <1>2, <1>3, <1>4 DEF Kinds

-----------------------------------------------------------------------------
(* The invariant. *)

Held(q) == {request[q].conn, request[q].public} \ {NoConn}

(* A connection is in the pool once or with one request. *)
PoolInv ==
    /\ Distinct(free)
    /\ \A q \in Requests : Held(q) \cap In(free) = {}
    /\ \A p, q \in Requests : p # q => Held(p) \cap Held(q) = {}

Home == {"tenant", "both"}

(* What a request in its place has: a tenant, the permission, and up to    *)
(* its last statement a connection with the path of its tenant.            *)
Scoped(q) ==
    LET r == request[q]
    IN  /\ r.call.kind # "platform" /\ r.pc \notin {"new", "refused"} => r.call.host \in Tenants
        /\ r.pc \in {"running", "rescoping"} => Permitted(r.call)
        /\ r.pc = "new" => r.saw = {}
        /\ r.call.kind \in Home /\ r.pc \in {"opening_public", "running"} /\ r.at <= 3 =>
              r.conn \in Conns /\ path[r.conn] = r.call.host
        /\ r.call.kind = "both" /\ r.pc = "running" /\ r.at = 1 => r.public \in Conns
        /\ r.call.kind = "both" /\ r.pc = "rescoping" => r.at > 3
        /\ r.call.kind = "platform" => r.pc # "rescoping"
        /\ r.conn = r.public => r.conn = NoConn
        /\ r.call.kind # "fallback" => /\ r.saw \subseteq {r.call.host}
                                       /\ r.saw # {} => Permitted(r.call)

SessionInv == TypeOK /\ PoolInv /\ \A q \in Requests : Scoped(q)

LEMMA RequestTyped ==
    ASSUME TypeOK, NEW q \in Requests
    PROVE  /\ request \in [Requests -> RequestRec] /\ request[q] \in RequestRec
           /\ request[q].call \in Call /\ request[q].call.kind \in Kinds
           /\ request[q].at \in 1 .. 6
           /\ request[q].conn \in Conns \cup {NoConn} /\ request[q].public \in Conns \cup {NoConn}
           /\ request[q].saw \subseteq Schemas
<1>1. request[q] \in RequestRec
  BY DEF TypeOK
<1>2. request[q].call \in Call
  BY <1>1 DEF RequestRec
<1>3. request[q].call.kind \in Kinds
  BY <1>2 DEF Call
<1> QED
  BY <1>1, <1>2, <1>3 DEF TypeOK, RequestRec

(* A step of one request, which changes the paths of its own connections   *)
(* and of those it takes from the pool.                                    *)
LEMMA RequestStepKeepsScopes ==
    ASSUME SessionInv, NEW q \in Requests,
           request' = [request EXCEPT ![q] = request'[q]], request'[q] \in RequestRec,
           signing' \in Keys, cached' \in 0 .. MaxKeys, scenario' = scenario,
           free' \in Seq(Conns), Distinct(free'), path' \in [Conns -> Schemas],
           Held(q)' \cup In(free') \subseteq Held(q) \cup In(free),
           Held(q)' \cap In(free') = {},
           \A c \in Conns : c \notin Held(q) \cup In(free) => path'[c] = path[c],
           Scoped(q)'
    PROVE  SessionInv'
<1>1. request \in [Requests -> RequestRec] /\ TypeOK /\ PoolInv
  BY DEF SessionInv, TypeOK
<1>2. TypeOK'
  BY <1>1 DEF TypeOK
<1>3. \A p \in Requests \ {q} : request'[p] = request[p] /\ Held(p)' = Held(p)
  BY <1>1 DEF Held
<1>4. PoolInv'
  BY <1>1, <1>3 DEF PoolInv
<1>5. ASSUME NEW p \in Requests \ {q}
      PROVE  Scoped(p)'
  <2>1. Held(p) \cap (Held(q) \cup In(free)) = {}
    BY <1>1 DEF PoolInv
  <2>2. Scoped(p)
    BY DEF SessionInv
  <2>3. request[p].conn \in Conns => path'[request[p].conn] = path[request[p].conn]
    <3> SUFFICES ASSUME request[p].conn \in Conns
                 PROVE  path'[request[p].conn] = path[request[p].conn]
      OBVIOUS
    <3>1. request[p].conn \in Held(p)
      BY AuthAssumption DEF AuthAssumption, Held
    <3> QED
      BY <2>1, <3>1
  <2> QED
    BY <1>3, <2>2, <2>3 DEF Scoped
<1> QED
  BY <1>2, <1>4, <1>5 DEF SessionInv

LEMMA SessionInit == Init => SessionInv
<1> SUFFICES ASSUME Init PROVE SessionInv
  OBVIOUS
<1> USE AuthAssumption DEF AuthAssumption
<1>1. free \in Seq(Conns) /\ Distinct(free)
  <2>1. Cardinality(Conns) \in Nat /\ ExistsBijection(1 .. Cardinality(Conns), Conns)
    BY FS_CardinalityType
  <2>2. \E s \in Orders : TRUE
    <3>1. PICK s \in Bijection(1 .. Cardinality(Conns), Conns) : TRUE
      BY <2>1 DEF ExistsBijection
    <3>2. s \in [1 .. Cardinality(Conns) -> Conns]
          /\ \A i, j \in 1 .. Cardinality(Conns) : s[i] = s[j] => i = j
      <4>1. s \in Injection(1 .. Cardinality(Conns), Conns)
        BY <3>1 DEF Bijection
      <4> QED
        BY <4>1 DEF Injection, IsInjective
    <3>3. s \in Orders
      BY <3>2 DEF Orders
    <3> QED
      BY <3>3
  <2>3. free \in Orders
    BY <2>2 DEF Init
  <2>4. free \in [1 .. Cardinality(Conns) -> Conns]
        /\ \A i, j \in 1 .. Cardinality(Conns) : free[i] = free[j] => i = j
    BY <2>3 DEF Orders
  <2>5. free \in Seq(Conns) /\ Len(free) = Cardinality(Conns)
    BY <2>1, <2>4
  <2> QED
    BY <2>4, <2>5 DEF Distinct
<1>2. NoCall \in Call
  BY DEF NoCall, Call, Kinds, Roles
<1>3. request \in [Requests -> RequestRec]
  <2> DEFINE blank == [pc |-> "new", call |-> NoCall, key |-> 1, keys |-> 0, again |-> FALSE,
                       conn |-> NoConn, txn |-> "none", before |-> "public",
                       public |-> NoConn, at |-> 1, saw |-> {}, result |-> "done"]
  <2>1. 1 \in Keys /\ 0 \in 0 .. MaxKeys /\ 1 \in 1 .. 6 /\ "new" \in RequestPC /\ "done" \in RequestPC
        /\ "public" \in Schemas /\ {} \in SUBSET Schemas
    BY DEF Keys, RequestPC, Schemas
  <2>2. blank \in RequestRec
    BY <1>2, <2>1 DEF RequestRec
  <2>3. request = [q \in Requests |-> blank]
    BY DEF Init
  <2> HIDE DEF blank
  <2> QED
    BY <2>2, <2>3
<1>4. TypeOK
  <2>1. signing \in Keys /\ cached \in 0 .. MaxKeys /\ scenario \in Scenarios
    BY DEF Init, Keys
  <2>2. path \in [Conns -> Schemas]
    BY DEF Init, Schemas
  <2> QED
    BY <1>1, <1>3, <2>1, <2>2 DEF TypeOK
<1>5. \A q \in Requests : Held(q) = {}
  BY DEF Init, Held
<1>6. PoolInv
  BY <1>1, <1>5 DEF PoolInv
<1>7. \A q \in Requests : Scoped(q)
  BY DEF Init, Scoped, NoCall
<1> QED
  BY <1>4, <1>6, <1>7 DEF SessionInv

-----------------------------------------------------------------------------
(* The actions. *)

(* What a step of request q starts from. *)
LEMMA StepFacts ==
    ASSUME SessionInv, NEW q \in Requests
    PROVE  /\ request \in [Requests -> RequestRec] /\ request[q] \in RequestRec
           /\ request[q].call \in Call /\ request[q].call.kind \in Kinds
           /\ request[q].at \in 1 .. 6
           /\ request[q].conn \in Conns \cup {NoConn} /\ request[q].public \in Conns \cup {NoConn}
           /\ Held(q) \cap In(free) = {} /\ Scoped(q) /\ NoConn \notin Conns
           /\ free \in Seq(Conns) /\ Distinct(free) /\ path \in [Conns -> Schemas]
           /\ signing \in Keys /\ cached \in 0 .. MaxKeys
BY RequestTyped, AuthAssumption DEF AuthAssumption, SessionInv, TypeOK, PoolInv

(* A step that changes neither connections nor paths. *)
LEMMA QuietStepKeepsScopes ==
    ASSUME SessionInv, NEW q \in Requests,
           request' = [request EXCEPT ![q] = request'[q]], request'[q] \in RequestRec,
           signing' \in Keys, cached' \in 0 .. MaxKeys, UNCHANGED <<free, path, scenario>>,
           request'[q].conn = request[q].conn, request'[q].public = request[q].public,
           Scoped(q)'
    PROVE  SessionInv'
<1>1. Held(q)' = Held(q)
  BY DEF Held
<1>2. /\ free' \in Seq(Conns) /\ Distinct(free') /\ path' \in [Conns -> Schemas]
      /\ Held(q) \cap In(free) = {}
  BY StepFacts
<1>3. In(free') = In(free)
  OBVIOUS
<1> QED
  BY <1>1, <1>2, <1>3, RequestStepKeepsScopes

Early == {"resolving", "reading_keys", "fetching_keys", "storing_keys", "dropping_keys",
          "opening", "failed", "unauthorized"}

LEMMA AuthKeeps ==
    ASSUME SessionInv, NEW q \in Requests, AuthStep(q)
    PROVE  SessionInv'
<1>1. UNCHANGED <<free, path, scenario, signing>>
  BY DEF AuthStep, ReadKeys, FetchKeys, FetchError, StoreKeys, DropKeys, poolVars
<1>2. request[q].pc \in Early /\ request[q].pc \notin {"new", "refused"}
  BY DEF AuthStep, ReadKeys, FetchKeys, FetchError, StoreKeys, DropKeys, Early
<1>3. /\ request[q] \in RequestRec /\ request \in [Requests -> RequestRec] /\ Scoped(q)
      /\ signing \in Keys /\ cached \in 0 .. MaxKeys
  BY StepFacts
<1>4. signing \in 0 .. MaxKeys /\ 0 \in 0 .. MaxKeys
  BY <1>3, AuthAssumption DEF AuthAssumption, Keys
<1>5. \A keys : With(q, keys) \in Early \cap RequestPC
  BY DEF With, Early, RequestPC
<1>6. \A pc \in Early \cap RequestPC : [request[q] EXCEPT !.pc = pc] \in RequestRec
  BY <1>3 DEF RequestRec
<1>7. /\ request' = [request EXCEPT ![q] = request'[q]] /\ request'[q] \in RequestRec
      /\ request'[q].pc \in Early
      /\ request'[q].conn = request[q].conn /\ request'[q].public = request[q].public
      /\ request'[q].call = request[q].call /\ request'[q].saw = request[q].saw
      /\ cached' \in 0 .. MaxKeys
  <2>1. ASSUME NEW pc \in Early \cap RequestPC, request' = [request EXCEPT ![q].pc = pc],
               cached' \in 0 .. MaxKeys
        PROVE  /\ request' = [request EXCEPT ![q] = request'[q]] /\ request'[q] \in RequestRec
               /\ request'[q].pc \in Early
               /\ request'[q].conn = request[q].conn /\ request'[q].public = request[q].public
               /\ request'[q].call = request[q].call /\ request'[q].saw = request[q].saw
               /\ cached' \in 0 .. MaxKeys
    <3>1. request'[q] = [request[q] EXCEPT !.pc = pc]
      BY <1>3, <2>1
    <3> QED
      BY <1>3, <1>6, <2>1, <3>1 DEF RequestRec
  <2>2. CASE ReadKeys(q)
    <3>1. PICK pc \in {"fetching_keys", With(q, cached)} : request' = [request EXCEPT ![q].pc = pc]
      <4> DEFINE found == IF cached = 0 THEN "fetching_keys" ELSE With(q, cached)
      <4>1. Goes(q, found) \/ Goes(q, "fetching_keys")
        BY <2>2 DEF ReadKeys
      <4>2. found \in {"fetching_keys", With(q, cached)}
        OBVIOUS
      <4> HIDE DEF found
      <4> QED
        BY <4>1, <4>2 DEF Goes
    <3>2. pc \in Early \cap RequestPC /\ cached' = cached
      BY <1>5, <2>2, <3>1 DEF ReadKeys, Early, RequestPC
    <3> QED
      BY <1>3, <2>1, <3>1, <3>2
  <2>3. CASE FetchKeys(q)
    <3>1. request' = [request EXCEPT ![q] = [@ EXCEPT !.pc = "storing_keys", !.keys = signing]]
          /\ cached' = cached
      BY <2>3 DEF FetchKeys
    <3>2. request'[q] = [request[q] EXCEPT !.pc = "storing_keys", !.keys = signing]
      BY <1>3, <3>1
    <3>3. request'[q] \in RequestRec
      BY <1>3, <1>4, <3>2 DEF RequestRec, RequestPC
    <3> QED
      BY <1>3, <3>1, <3>2, <3>3 DEF RequestRec, Early
  <2>4. CASE FetchError(q)
    <3>1. request' = [request EXCEPT ![q].pc = "failed"] /\ cached' = cached
      BY <2>4 DEF FetchError, Goes
    <3>2. "failed" \in Early \cap RequestPC
      BY DEF Early, RequestPC
    <3> QED
      BY <1>3, <2>1, <3>1, <3>2
  <2>5. CASE StoreKeys(q)
    <3>1. request' = [request EXCEPT ![q].pc = With(q, request[q].keys)]
          /\ cached' \in {cached, request[q].keys}
      BY <2>5 DEF StoreKeys, Goes
    <3>2. cached' \in 0 .. MaxKeys
      BY <1>3, <3>1 DEF RequestRec
    <3> QED
      BY <1>5, <2>1, <3>1, <3>2
  <2>6. CASE DropKeys(q)
    <3>1. request' = [request EXCEPT ![q] = [@ EXCEPT !.pc = "reading_keys", !.again = TRUE]]
          /\ cached' \in {0, cached}
      BY <2>6 DEF DropKeys
    <3>2. request'[q] = [request[q] EXCEPT !.pc = "reading_keys", !.again = TRUE]
      BY <1>3, <3>1
    <3>3. request'[q] \in RequestRec
      BY <1>3, <3>2 DEF RequestRec, RequestPC
    <3> QED
      BY <1>3, <1>4, <3>1, <3>2, <3>3 DEF RequestRec, Early
  <2> QED
    BY <2>2, <2>3, <2>4, <2>5, <2>6 DEF AuthStep
<1>8. Scoped(q)'
  BY <1>1, <1>2, <1>3, <1>7 DEF Scoped, Early
<1> QED
  BY <1>1, <1>3, <1>7, <1>8, QuietStepKeepsScopes

LEMMA ArriveKeeps ==
    ASSUME SessionInv, NEW q \in Requests, Arrive(q)
    PROVE  SessionInv'
<1>1. PICK call \in scenario.asked :
          request' = [request EXCEPT ![q] = [@ EXCEPT
                         !.call = call, !.key = signing,
                         !.pc = IF call.kind = "platform" THEN "reading_keys"
                                ELSE IF call.host = NoTenant THEN "refused" ELSE "resolving"]]
  BY DEF Arrive
<1>2. UNCHANGED <<free, path, signing, cached, scenario>> /\ request[q].pc = "new"
  BY DEF Arrive, keyVars
<1>3. call \in Call
  BY AuthAssumption DEF AuthAssumption, SessionInv, TypeOK
<1>4. /\ request[q] \in RequestRec /\ request \in [Requests -> RequestRec] /\ Scoped(q)
      /\ signing \in Keys /\ cached \in 0 .. MaxKeys
  BY StepFacts
<1>5. call.host \in Tenants \cup {NoTenant}
  BY <1>3 DEF Call
<1> DEFINE pc == IF call.kind = "platform" THEN "reading_keys"
                 ELSE IF call.host = NoTenant THEN "refused" ELSE "resolving"
<1>6. request'[q] = [request[q] EXCEPT !.call = call, !.key = signing, !.pc = pc]
  BY <1>1, <1>4
<1>7. /\ pc \in RequestPC /\ pc \notin {"new", "running", "rescoping", "opening_public"}
      /\ call.kind # "platform" /\ pc # "refused" => call.host \in Tenants
  BY <1>5 DEF RequestPC
<1> HIDE DEF pc
<1>8. /\ request'[q] \in RequestRec /\ request'[q].call = call /\ request'[q].pc = pc
      /\ request'[q].conn = request[q].conn /\ request'[q].public = request[q].public
      /\ request'[q].saw = request[q].saw
  <2> DEFINE r == request[q]
  <2>1. r \in RequestRec /\ request'[q] = [r EXCEPT !.call = call, !.key = signing, !.pc = pc]
    BY <1>4, <1>6
  <2> HIDE DEF r
  <2>2. request'[q] \in RequestRec
    BY <1>3, <1>4, <1>7, <2>1 DEF RequestRec
  <2>3. /\ request'[q].call = call /\ request'[q].pc = pc /\ request'[q].conn = r.conn
        /\ request'[q].public = r.public /\ request'[q].saw = r.saw
    BY <2>1 DEF RequestRec
  <2> QED
    BY <2>2, <2>3 DEF r
<1>9. Scoped(q)'
  BY <1>2, <1>4, <1>7, <1>8 DEF Scoped
<1>10. request' = [request EXCEPT ![q] = request'[q]]
  BY <1>1, <1>4
<1> QED
  BY <1>2, <1>4, <1>8, <1>9, <1>10, QuietStepKeepsScopes

(* A request takes the next connection of the pool. *)
LEMMA TakeLemma ==
    ASSUME SessionInv, NEW q \in Requests, free # <<>>
    PROVE  /\ Head(free) \in Conns /\ Head(free) \in In(free) /\ Head(free) \notin Held(q)
           /\ Tail(free) \in Seq(Conns) /\ Distinct(Tail(free))
           /\ In(Tail(free)) = In(free) \ {Head(free)}
BY StepFacts, TailLemma

LEMMA ResolveKeeps ==
    ASSUME SessionInv, NEW q \in Requests, Resolve(q)
    PROVE  SessionInv'
<1> DEFINE c == Head(free)
           pc == IF request[q].call.host \in scenario.active THEN "reading_keys" ELSE "refused"
<1>1. /\ request[q].pc = "resolving" /\ free # <<>>
      /\ path' = [path EXCEPT ![c] = "public"] /\ free' = Append(Tail(free), c)
      /\ request' = [request EXCEPT ![q].pc = pc]
      /\ UNCHANGED <<signing, cached, scenario>>
  BY DEF Resolve, Goes, keyVars
<1>2. /\ request[q] \in RequestRec /\ request \in [Requests -> RequestRec] /\ Scoped(q)
      /\ signing \in Keys /\ cached \in 0 .. MaxKeys /\ path \in [Conns -> Schemas]
      /\ Held(q) \cap In(free) = {}
  BY StepFacts
<1>3. pc \in RequestPC /\ pc \notin {"new", "running", "rescoping", "opening_public"}
  BY DEF RequestPC
<1>4. /\ c \in Conns /\ c \in In(free) /\ Tail(free) \in Seq(Conns) /\ Distinct(Tail(free))
      /\ In(Tail(free)) = In(free) \ {c}
  BY <1>1, TakeLemma
<1> HIDE DEF c, pc
<1>5. free' \in Seq(Conns) /\ Distinct(free') /\ In(free') = In(free)
  <2> DEFINE t == Tail(free)
  <2>1. t \in Seq(Conns) /\ Distinct(t) /\ c \notin In(t) /\ In(t) = In(free) \ {c}
    BY <1>4
  <2>2. free' = Append(t, c)
    BY <1>1
  <2> HIDE DEF t
  <2>3. Append(t, c) \in Seq(Conns) /\ Distinct(Append(t, c)) /\ In(Append(t, c)) = In(t) \cup {c}
    BY <1>4, <2>1, AppendLemma
  <2> QED
    BY <1>4, <2>1, <2>2, <2>3
<1>6. request'[q] = [request[q] EXCEPT !.pc = pc]
  BY <1>1, <1>2
<1>7. /\ request'[q] \in RequestRec /\ request'[q].call = request[q].call /\ request'[q].pc = pc
      /\ request'[q].conn = request[q].conn /\ request'[q].public = request[q].public
      /\ request'[q].saw = request[q].saw
  BY <1>2, <1>3, <1>6 DEF RequestRec
<1>8. Scoped(q)'
  BY <1>1, <1>2, <1>3, <1>7 DEF Scoped
<1>9. Held(q)' = Held(q)
  BY <1>7 DEF Held
<1>10. path' \in [Conns -> Schemas]
  BY <1>1, <1>2 DEF Schemas
<1>11. \A x \in Conns : x \notin Held(q) \cup In(free) => path'[x] = path[x]
  BY <1>1, <1>2, <1>4
<1>12. request' = [request EXCEPT ![q] = request'[q]]
  BY <1>1, <1>2
<1> QED
  BY <1>1, <1>2, <1>5, <1>7, <1>8, <1>9, <1>10, <1>11, <1>12, RequestStepKeepsScopes

(* The outcome of Begins. *)
LEMMA BeginsFacts ==
    ASSUME NEW call, NEW r \in RequestRec
    PROVE  LET b == Begins(call, r)
           IN  /\ b \in RequestRec /\ b.call = r.call /\ b.conn = r.conn /\ b.public = r.public
               /\ b.saw = r.saw /\ b.at = r.at
               /\ b.pc \in {"running", "closing"} /\ (b.pc = "running" => Permitted(call))
<1>1. CASE Permitted(call)
  <2>1. Begins(call, r) = [r EXCEPT !.pc = "running"]
    BY <1>1 DEF Begins
  <2> QED
    BY <1>1, <2>1 DEF RequestRec, RequestPC
<1>2. CASE ~Permitted(call)
  <2>1. Begins(call, r) = [r EXCEPT !.pc = "closing", !.result = "refused"]
    BY <1>2 DEF Begins
  <2> QED
    BY <2>1 DEF RequestRec, RequestPC
<1> QED
  BY <1>1, <1>2

LEMMA OpenKeeps ==
    ASSUME SessionInv, NEW q \in Requests, Open(q)
    PROVE  SessionInv'
<1> DEFINE c    == Head(free)
           call == request[q].call
           r    == [request[q] EXCEPT !.conn = c, !.txn = "auto"]
           s    == IF call.kind = "platform" THEN "public" ELSE call.host
           b    == IF call.kind = "both" THEN [r EXCEPT !.pc = "opening_public"] ELSE Begins(call, r)
<1>1. request[q].pc = "opening" /\ UNCHANGED <<signing, cached, scenario>>
  BY DEF Open, keyVars
<1>2. /\ request[q] \in RequestRec /\ request \in [Requests -> RequestRec] /\ Scoped(q)
      /\ signing \in Keys /\ cached \in 0 .. MaxKeys /\ path \in [Conns -> Schemas]
      /\ Held(q) \cap In(free) = {} /\ NoConn \notin Conns
      /\ request[q].public \in Conns \cup {NoConn}
  BY StepFacts
<1>3. CASE request' = [request EXCEPT ![q].pc = "refused"] /\ UNCHANGED <<free, path>>
  <2>1. request'[q] = [request[q] EXCEPT !.pc = "refused"]
    BY <1>2, <1>3
  <2>2. /\ request'[q] \in RequestRec /\ request'[q].call = request[q].call
        /\ request'[q].pc = "refused" /\ request'[q].saw = request[q].saw
        /\ request'[q].conn = request[q].conn /\ request'[q].public = request[q].public
    BY <1>2, <2>1 DEF RequestRec, RequestPC
  <2>3. Scoped(q)'
    BY <1>2, <2>2 DEF Scoped
  <2>4. request' = [request EXCEPT ![q] = request'[q]]
    BY <1>2, <1>3
  <2> QED
    BY <1>1, <1>2, <1>3, <2>2, <2>3, <2>4, QuietStepKeepsScopes
<1>4. CASE /\ free # <<>> /\ free' = Tail(free) /\ path' = [path EXCEPT ![c] = s]
           /\ request' = [request EXCEPT ![q] = b]
  <2>1. /\ c \in Conns /\ c \in In(free) /\ c \notin Held(q)
        /\ free' \in Seq(Conns) /\ Distinct(free') /\ In(free') = In(free) \ {c}
    BY <1>4, TakeLemma
  <2>2. r \in RequestRec
    BY <1>2, <2>1 DEF RequestRec
  <2>3. /\ r.call = call /\ r.conn = c /\ r.public = request[q].public /\ r.saw = request[q].saw
        /\ r.at = request[q].at
    BY <1>2 DEF RequestRec
  <2>4. s \in Schemas /\ (call.kind # "platform" => s = call.host)
    BY <1>1, <1>2 DEF Scoped, Schemas
  <2> HIDE DEF c, call, r, s
  <2>5. /\ b \in RequestRec /\ b.call = call /\ b.conn = c /\ b.public = request[q].public
        /\ b.saw = request[q].saw /\ b.pc \in {"running", "closing", "opening_public"}
        /\ (b.pc = "running" => Permitted(call) /\ call.kind # "both")
    <3>1. CASE call.kind = "both"
      <4>1. b = [r EXCEPT !.pc = "opening_public"]
        BY <3>1
      <4> HIDE DEF b
      <4> QED
        BY <2>2, <2>3, <4>1 DEF RequestRec, RequestPC
    <3>2. CASE call.kind # "both"
      <4>1. b = Begins(call, r)
        BY <3>2
      <4> HIDE DEF b
      <4> QED
        BY <2>2, <2>3, <3>2, <4>1, BeginsFacts
    <3> QED
      BY <3>1, <3>2
  <2> HIDE DEF b
  <2>6. request'[q] = b /\ request' = [request EXCEPT ![q] = request'[q]]
    BY <1>2, <1>4
  <2>7. path' \in [Conns -> Schemas] /\ path'[c] = s
    BY <1>2, <1>4, <2>1, <2>4
  <2>8. c # request[q].public
    BY <1>2, <2>1 DEF Held
  <2>9. Scoped(q)'
    BY <1>1, <1>2, <2>1, <2>4, <2>5, <2>6, <2>7, <2>8 DEF Scoped, call, Home
  <2>10. Held(q)' \subseteq {c} \cup Held(q)
    BY <2>5, <2>6 DEF Held
  <2>11. \A x \in Conns : x \notin Held(q) \cup In(free) => path'[x] = path[x]
    BY <1>2, <1>4, <2>1
  <2> QED
    BY <1>1, <1>2, <2>1, <2>5, <2>6, <2>7, <2>9, <2>10, <2>11, RequestStepKeepsScopes
<1> QED
  BY <1>3, <1>4 DEF Open, Goes

LEMMA OpenPublicKeeps ==
    ASSUME SessionInv, NEW q \in Requests, OpenPublic(q)
    PROVE  SessionInv'
<1> DEFINE c == Head(free)
           r == [request[q] EXCEPT !.public = c]
           b == Begins(request[q].call, r)
<1>1. /\ request[q].pc = "opening_public" /\ UNCHANGED <<signing, cached, scenario>>
      /\ free # <<>> /\ free' = Tail(free) /\ path' = [path EXCEPT ![c] = "public"]
      /\ request' = [request EXCEPT ![q] = b]
  BY DEF OpenPublic, keyVars
<1>2. /\ request[q] \in RequestRec /\ request \in [Requests -> RequestRec] /\ Scoped(q)
      /\ signing \in Keys /\ cached \in 0 .. MaxKeys /\ path \in [Conns -> Schemas]
      /\ Held(q) \cap In(free) = {} /\ NoConn \notin Conns
      /\ request[q].conn \in Conns \cup {NoConn}
  BY StepFacts
<1>3. /\ c \in Conns /\ c \in In(free) /\ c \notin Held(q)
      /\ free' \in Seq(Conns) /\ Distinct(free') /\ In(free') = In(free) \ {c}
  BY <1>1, TakeLemma
<1> HIDE DEF c
<1>4. /\ r \in RequestRec /\ r.call = request[q].call /\ r.conn = request[q].conn /\ r.public = c
      /\ r.saw = request[q].saw /\ r.at = request[q].at
  BY <1>2, <1>3 DEF RequestRec
<1> HIDE DEF r
<1>5. /\ b \in RequestRec /\ b.call = request[q].call /\ b.conn = request[q].conn /\ b.public = c
      /\ b.saw = request[q].saw /\ b.at = request[q].at
      /\ b.pc \in {"running", "closing"} /\ (b.pc = "running" => Permitted(request[q].call))
  BY <1>4, BeginsFacts
<1> HIDE DEF b
<1>6. request'[q] = b /\ request' = [request EXCEPT ![q] = request'[q]]
  BY <1>1, <1>2
<1>7. path' \in [Conns -> Schemas]
  BY <1>1, <1>2 DEF Schemas
<1>8. c # request[q].conn
  BY <1>2, <1>3 DEF Held
<1>9. \A x \in Conns : x # c => path'[x] = path[x]
  BY <1>1, <1>2
<1>10. Scoped(q)'
  BY <1>1, <1>2, <1>3, <1>5, <1>6, <1>8, <1>9 DEF Scoped, Home
<1>11. Held(q)' \subseteq {c} \cup Held(q)
  BY <1>5, <1>6 DEF Held
<1> QED
  BY ZenonT(30), <1>1, <1>2, <1>3, <1>5, <1>6, <1>7, <1>9, <1>10, <1>11, RequestStepKeepsScopes

(* A request that is at an instruction of its program. *)
LEMMA DoesFacts ==
    ASSUME SessionInv, NEW q \in Requests, NEW what, Does(q, what)
    PROVE  /\ request[q].pc = "running" /\ request[q].at \in 1 .. 4
           /\ Fits(request[q].call.kind, request[q].at, what)
<1>1. request[q].call.kind \in Kinds /\ request[q].at \in 1 .. 6
  BY StepFacts
<1> DEFINE k == request[q].call.kind
           n == request[q].at
<1>2. request[q].pc = "running" /\ n <= Len(Program[k]) /\ Program[k][n] = what
  BY DEF Does
<1> HIDE DEF k, n
<1>3. k \in Kinds /\ n \in 1 .. 6
  BY <1>1 DEF k, n
<1>4. Len(Program[k]) \in 1 .. 4 /\ \A m \in 1 .. Len(Program[k]) : Fits(k, m, Program[k][m])
  BY <1>3, ProgramFacts
<1>5. n \in 1 .. Len(Program[k]) /\ n \in 1 .. 4
  BY <1>2, <1>3, <1>4
<1> QED
  BY <1>2, <1>4, <1>5 DEF k, n

LEMMA StatementKeeps ==
    ASSUME SessionInv, NEW q \in Requests, Statement(q)
    PROVE  SessionInv'
<1> DEFINE r == request[q]
           c == IF r.conn = NoConn THEN Head(free) ELSE r.conn
           b == IF r.conn = NoConn
                THEN [r EXCEPT !.conn = c, !.txn = "open", !.before = path[c],
                               !.saw = r.saw \cup {path[c]}, !.at = r.at + 1]
                ELSE [r EXCEPT !.saw = r.saw \cup {path[c]}, !.at = r.at + 1]
<1>1. /\ Does(q, "statement") /\ UNCHANGED <<signing, cached, scenario, path>>
      /\ (r.conn = NoConn => free # <<>>)
      /\ free' = (IF r.conn = NoConn THEN Tail(free) ELSE free)
      /\ request' = [request EXCEPT ![q] = b]
  BY DEF Statement, keyVars
<1>2. /\ r \in RequestRec /\ request \in [Requests -> RequestRec] /\ Scoped(q)
      /\ signing \in Keys /\ cached \in 0 .. MaxKeys /\ path \in [Conns -> Schemas]
      /\ Held(q) \cap In(free) = {} /\ NoConn \notin Conns
      /\ r.conn \in Conns \cup {NoConn} /\ r.saw \subseteq Schemas
      /\ free \in Seq(Conns) /\ Distinct(free)
      /\ r.public \in Conns \cup {NoConn} /\ r.call.kind \in Kinds
  BY StepFacts, RequestTyped DEF SessionInv
<1>3. /\ r.pc = "running" /\ r.at \in 1 .. 4 /\ Fits(r.call.kind, r.at, "statement")
  BY <1>1, DoesFacts
<1>4. r.call.kind = "fallback" \/ (r.call.kind \in Home /\ r.at <= 3)
  BY <1>3 DEF Fits, Home
<1>5. r.call.kind \in Home => r.conn \in Conns /\ path[r.conn] = r.call.host
  <2>1. r.call.kind \in Home => r.at <= 3
    BY <1>4 DEF Home
  <2> QED
    BY <1>2, <1>3, <2>1 DEF Scoped
<1>6. /\ c \in Conns /\ free' \in Seq(Conns) /\ Distinct(free')
      /\ In(free') \subseteq In(free) \ {c} /\ (c \in In(free) \/ c = r.conn) /\ c # r.public
  <2>1. CASE r.conn = NoConn
    <3>1. c = Head(free)
      BY <2>1
    <3>2. c \in Conns /\ c \in In(free) /\ c \notin Held(q) /\ Tail(free) \in Seq(Conns)
          /\ Distinct(Tail(free)) /\ In(Tail(free)) = In(free) \ {c}
      BY <1>1, <2>1, <3>1, TakeLemma
    <3> HIDE DEF c
    <3> QED
      BY <1>1, <1>2, <2>1, <3>2 DEF Held
  <2>2. CASE r.conn # NoConn
    <3>1. c = r.conn
      BY <2>2
    <3> HIDE DEF c
    <3>2. c \notin In(free) /\ c # r.public
      BY <1>2, <2>2, <3>1 DEF Held, Scoped
    <3> QED
      BY <1>1, <1>2, <2>2, <3>1, <3>2
  <2> QED
    BY <2>1, <2>2
<1>7. /\ b \in RequestRec /\ b.call = r.call /\ b.pc = r.pc /\ b.conn = c /\ b.public = r.public
      /\ b.saw = r.saw \cup {path[c]} /\ b.at = r.at + 1
  <2>1. path[c] \in Schemas
    BY <1>2, <1>6
  <2>2. r.saw \cup {path[c]} \in SUBSET Schemas /\ r.at + 1 \in 1 .. 6
    BY <1>2, <1>3, <2>1
  <2>3. CASE r.conn = NoConn
    <3>1. b = [r EXCEPT !.conn = c, !.txn = "open", !.before = path[c],
                        !.saw = r.saw \cup {path[c]}, !.at = r.at + 1]
      BY <2>3
    <3> HIDE DEF b, c, r
    <3> QED
      BY <1>2, <1>6, <2>1, <2>2, <3>1 DEF RequestRec
  <2>4. CASE r.conn # NoConn
    <3>1. b = [r EXCEPT !.saw = r.saw \cup {path[c]}, !.at = r.at + 1] /\ c = r.conn
      BY <2>4
    <3> HIDE DEF b, c, r
    <3> QED
      BY <1>2, <1>6, <2>1, <2>2, <3>1 DEF RequestRec
  <2> QED
    BY <2>3, <2>4
<1>8. r.call.kind \in Home => c = r.conn
  BY <1>2, <1>5
<1> HIDE DEF b, c
<1>9. request'[q] = b /\ request' = [request EXCEPT ![q] = request'[q]]
  BY <1>1, <1>2
<1>10. Permitted(r.call)
  BY <1>2, <1>3 DEF Scoped
<1>11. Scoped(q)'
  <2>1. b.call.kind # "platform" => b.call.host \in Tenants
    BY <1>2, <1>3, <1>7 DEF Scoped
  <2>2. b.pc = "running" /\ Permitted(b.call) /\ b.conn # b.public
    BY <1>3, <1>6, <1>7, <1>10
  <2>3. b.call.kind \in Home => b.conn \in Conns /\ path'[b.conn] = b.call.host
    BY <1>1, <1>5, <1>7, <1>8
  <2>4. b.call.kind = "both" => b.at # 1
    BY <1>3, <1>7
  <2>5. b.call.kind # "fallback" => b.saw \subseteq {b.call.host}
    <3>1. r.call.kind # "fallback" => r.saw \subseteq {r.call.host} /\ path[c] = r.call.host
      BY <1>2, <1>4, <1>5, <1>8 DEF Scoped
    <3> QED
      BY <1>7, <3>1
  <2> HIDE DEF r
  <2> QED
    BY <1>9, <2>1, <2>2, <2>3, <2>4, <2>5 DEF Scoped
<1>12. Held(q)' \subseteq {c} \cup Held(q) /\ (c \in Held(q) \/ c \in In(free))
       /\ Held(q)' \cap In(free') = {}
  BY <1>2, <1>6, <1>7, <1>9 DEF Held
<1> QED
  BY <1>1, <1>2, <1>6, <1>7, <1>9, <1>11, <1>12, RequestStepKeepsScopes

LEMMA SetPathKeeps ==
    ASSUME SessionInv, NEW q \in Requests, SetPath(q)
    PROVE  SessionInv'
<1> DEFINE r == request[q]
<1>1. PICK s \in Schemas :
        /\ Does(q, "set_tenant") \/ Does(q, "set_public")
        /\ path' = [path EXCEPT ![r.conn] = s]
        /\ request' = [request EXCEPT ![q].at = @ + 1]
  BY DEF SetPath
<1>2. UNCHANGED <<free, signing, cached, scenario>>
  BY DEF SetPath, keyVars
<1>3. /\ r \in RequestRec /\ request \in [Requests -> RequestRec] /\ Scoped(q)
      /\ signing \in Keys /\ cached \in 0 .. MaxKeys /\ path \in [Conns -> Schemas]
      /\ Held(q) \cap In(free) = {} /\ NoConn \notin Conns /\ free \in Seq(Conns) /\ Distinct(free)
  BY StepFacts
<1>4. /\ r.pc = "running" /\ r.at \in 1 .. 4
      /\ Fits(r.call.kind, r.at, "set_tenant") \/ Fits(r.call.kind, r.at, "set_public")
  BY <1>1, DoesFacts
<1>5. r.call.kind = "platform" \/ (r.call.kind = "both" /\ r.at = 3)
  BY <1>4 DEF Fits
<1>6. request'[q] = [r EXCEPT !.at = r.at + 1] /\ request' = [request EXCEPT ![q] = request'[q]]
  BY <1>1, <1>3
<1> HIDE DEF r
<1>7. /\ request'[q] \in RequestRec /\ request'[q].call = r.call /\ request'[q].pc = r.pc
      /\ request'[q].conn = r.conn /\ request'[q].public = r.public /\ request'[q].saw = r.saw
      /\ request'[q].at = r.at + 1
  <2>0. r.at + 1 \in 1 .. 6
    <3>1. r.at \in 1 .. 4
      BY <1>4
    <3> QED
      BY <3>1
  <2>1. r \in RequestRec /\ request'[q] = [r EXCEPT !.at = r.at + 1]
    BY <1>3, <1>6
  <2>2. request'[q] \in RequestRec
    BY <2>0, <2>1 DEF RequestRec
  <2>3. /\ request'[q].call = r.call /\ request'[q].pc = r.pc /\ request'[q].conn = r.conn
        /\ request'[q].public = r.public /\ request'[q].saw = r.saw
        /\ request'[q].at = r.at + 1
    BY <2>1 DEF RequestRec
  <2> QED
    BY <2>2, <2>3
<1>8. Scoped(q)'
  <2>1. r.call.kind = "platform" \/ (r.call.kind = "both" /\ request'[q].at = 4)
    BY <1>5, <1>7
  <2>2. request'[q].call.kind \notin {"tenant", "fallback"}
    BY <1>7, <2>1
  <2>3. /\ r.call.kind # "platform" => r.call.host \in Tenants
        /\ Permitted(r.call) /\ r.saw \subseteq {r.call.host}
        /\ r.conn = r.public => r.conn = NoConn
    <3>1. r.call.kind # "fallback"
      BY <1>5
    <3> QED
      BY <1>3, <1>4, <3>1 DEF Scoped, r
  <2>4. request'[q].pc = "running"
    BY <1>4, <1>7
  <2>5. request'[q].at \in 1 .. 6
    BY <1>7 DEF RequestRec
  <2>6. ~(request'[q].call.kind \in Home /\ request'[q].at <= 3)
    <3>1. CASE r.call.kind = "platform"
      BY <1>7, <3>1 DEF Home
    <3>2. CASE request'[q].at = 4
      BY <3>2
    <3> QED
      BY <2>1, <3>1, <3>2
  <2>7. ~(request'[q].call.kind = "both" /\ request'[q].at = 1)
    <3>1. CASE r.call.kind = "platform"
      BY <1>7, <3>1
    <3>2. CASE request'[q].at = 4
      BY <3>2
    <3> QED
      BY <2>1, <3>1, <3>2
  <2> QED
    BY <1>7, <2>3, <2>4, <2>6, <2>7 DEF Scoped
<1>9. Held(q)' = Held(q)
  BY <1>7 DEF Held, r
<1>10. \A x \in Conns : x \notin Held(q) \cup In(free) => path'[x] = path[x]
  BY <1>1, <1>3 DEF Held, r
<1>11. path' \in [Conns -> Schemas]
  BY <1>1, <1>3
<1> QED
  BY <1>2, <1>3, <1>6, <1>7, <1>8, <1>9, <1>10, <1>11, RequestStepKeepsScopes

LEMMA PublicCommitKeeps ==
    ASSUME SessionInv, NEW q \in Requests, PublicCommit(q)
    PROVE  SessionInv'
<1> DEFINE r == request[q]
<1>1. /\ Does(q, "public_commit") /\ UNCHANGED <<path, signing, cached, scenario>>
      /\ free' = Append(free, r.public)
      /\ request' = [request EXCEPT ![q] = [r EXCEPT !.public = NoConn, !.at = r.at + 1]]
  BY DEF PublicCommit, keyVars
<1>2. /\ r \in RequestRec /\ request \in [Requests -> RequestRec] /\ Scoped(q)
      /\ signing \in Keys /\ cached \in 0 .. MaxKeys /\ path \in [Conns -> Schemas]
      /\ Held(q) \cap In(free) = {} /\ NoConn \notin Conns /\ free \in Seq(Conns) /\ Distinct(free)
  BY StepFacts
<1>3. r.pc = "running" /\ r.at \in 1 .. 4 /\ Fits(r.call.kind, r.at, "public_commit")
  BY <1>1, DoesFacts
<1>4. r.call.kind = "both" /\ r.at = 1
  BY <1>3 DEF Fits
<1>5. r.public \in Conns /\ r.conn \in Conns /\ path[r.conn] = r.call.host /\ r.conn # r.public
  <2>1. r.call.kind \in Home /\ r.at <= 3
    BY <1>4 DEF Home
  <2>2. r.public \in Conns
    BY <1>2, <1>3, <1>4 DEF Scoped
  <2>3. r.conn \in Conns /\ path[r.conn] = r.call.host
    BY <1>2, <1>3, <2>1 DEF Scoped
  <2>4. r.conn # r.public
    BY <1>2, <2>3 DEF Scoped
  <2> QED
    BY <2>2, <2>3, <2>4
<1>6. /\ free' \in Seq(Conns) /\ Distinct(free') /\ In(free') = In(free) \cup {r.public}
  <2>1. r.public \notin In(free)
    BY <1>2, <1>5 DEF Held
  <2> HIDE DEF r
  <2> QED
    BY <1>1, <1>2, <1>5, <2>1, AppendLemma
<1>7. /\ request'[q] = [r EXCEPT !.public = NoConn, !.at = r.at + 1]
      /\ request' = [request EXCEPT ![q] = request'[q]]
  BY <1>1, <1>2
<1> HIDE DEF r
<1>8. /\ request'[q] \in RequestRec /\ request'[q].call = r.call /\ request'[q].pc = r.pc
      /\ request'[q].conn = r.conn /\ request'[q].public = NoConn /\ request'[q].saw = r.saw
      /\ request'[q].at = 2
  <2>1. r.at + 1 = 2 /\ 2 \in 1 .. 6
    BY <1>4
  <2> QED
    BY <1>2, <1>7, <2>1 DEF RequestRec
<1>9. Scoped(q)'
  <2>1. /\ r.call.host \in Tenants /\ Permitted(r.call)
        /\ r.saw \subseteq {r.call.host}
    BY <1>2, <1>3, <1>4 DEF Scoped, r
  <2>2. path'[request'[q].conn] = r.call.host /\ request'[q].conn \in Conns
        /\ request'[q].conn # request'[q].public
    BY <1>1, <1>2, <1>5, <1>8
  <2>3. /\ request'[q].pc = "running" /\ request'[q].call = r.call
        /\ r.call.kind = "both" /\ request'[q].saw = r.saw
    BY <1>3, <1>4, <1>8
  <2>4. request'[q].at # 1
    BY <1>8
  <2> QED
    BY <2>1, <2>2, <2>3, <2>4 DEF Scoped
<1>10. Held(q)' = {r.conn}
  BY <1>2, <1>5, <1>8 DEF Held
<1>11. Held(q) = {r.conn, r.public}
  BY <1>2, <1>5 DEF Held, r
<1>12. Held(q)' \cup In(free') \subseteq Held(q) \cup In(free)
  BY <1>6, <1>10, <1>11
<1>13. Held(q)' \cap In(free') = {}
  BY <1>2, <1>5, <1>6, <1>10, <1>11
<1>14. path' = path
  BY <1>1
<1> QED
  BY <1>1, <1>2, <1>6, <1>7, <1>8, <1>9, <1>12, <1>13, <1>14, RequestStepKeepsScopes

(* A session gives back its connection, if it has one. *)
LEMMA GiveLemma ==
    ASSUME SessionInv, NEW q \in Requests,
           free' = IF request[q].conn = NoConn THEN free ELSE Append(free, request[q].conn)
    PROVE  /\ free' \in Seq(Conns) /\ Distinct(free')
           /\ In(free') = In(free) \cup ({request[q].conn} \ {NoConn})
<1> DEFINE c == request[q].conn
<1>1. /\ Held(q) \cap In(free) = {} /\ NoConn \notin Conns /\ free \in Seq(Conns)
      /\ Distinct(free) /\ c \in Conns \cup {NoConn}
  BY StepFacts
<1>2. c # NoConn => c \notin In(free)
  BY <1>1 DEF Held
<1> HIDE DEF c
<1>3. free' = IF c = NoConn THEN free ELSE Append(free, c)
  BY DEF c
<1>4. CASE c = NoConn
  BY <1>1, <1>3, <1>4 DEF c
<1>5. CASE c # NoConn
  <2>1. free' = Append(free, c) /\ c \in Conns
    BY <1>1, <1>3, <1>5
  <2>2. /\ Append(free, c) \in Seq(Conns) /\ Distinct(Append(free, c))
        /\ In(Append(free, c)) = In(free) \cup {c}
    BY <1>1, <1>2, <1>5, <2>1, AppendLemma
  <2> QED
    BY <1>5, <2>1, <2>2 DEF c
<1> QED
  BY <1>4, <1>5

LEMMA CommitKeeps ==
    ASSUME SessionInv, NEW q \in Requests, Commit(q)
    PROVE  SessionInv'
<1> DEFINE r  == request[q]
           pc == IF r.call.kind = "platform" THEN "running" ELSE "rescoping"
<1>1. /\ Does(q, "commit") /\ UNCHANGED <<path, signing, cached, scenario>>
      /\ free' = IF request[q].conn = NoConn THEN free ELSE Append(free, request[q].conn)
      /\ request' = [request EXCEPT ![q] = [r EXCEPT
                        !.conn = NoConn, !.txn = "none", !.at = r.at + 1, !.pc = pc]]
  BY DEF Commit, keyVars
<1>2. /\ r \in RequestRec /\ request \in [Requests -> RequestRec] /\ Scoped(q)
      /\ signing \in Keys /\ cached \in 0 .. MaxKeys /\ path \in [Conns -> Schemas]
      /\ Held(q) \cap In(free) = {} /\ NoConn \notin Conns
      /\ r.public \in Conns \cup {NoConn}
  BY StepFacts
<1>3. r.pc = "running" /\ r.at \in 1 .. 4 /\ Fits(r.call.kind, r.at, "commit")
  BY <1>1, DoesFacts
<1>4. r.call.kind = "both" => r.at = 4
  BY <1>3 DEF Fits
<1>5. /\ free' \in Seq(Conns) /\ Distinct(free')
      /\ In(free') = In(free) \cup ({r.conn} \ {NoConn})
  BY <1>1, GiveLemma
<1>6. /\ request'[q] = [r EXCEPT !.conn = NoConn, !.txn = "none", !.at = r.at + 1, !.pc = pc]
      /\ request' = [request EXCEPT ![q] = request'[q]]
  BY <1>1, <1>2
<1>7. /\ pc \in {"running", "rescoping"} /\ (r.call.kind # "platform" => pc = "rescoping")
      /\ pc \in RequestPC
  BY DEF RequestPC
<1> HIDE DEF r, pc
<1>8. /\ request'[q] \in RequestRec /\ request'[q].call = r.call /\ request'[q].pc = pc
      /\ request'[q].conn = NoConn /\ request'[q].public = r.public /\ request'[q].saw = r.saw
      /\ request'[q].at = r.at + 1
  <2>1. r.at + 1 \in 1 .. 6
    BY <1>3
  <2> QED
    BY <1>2, <1>6, <1>7, <2>1 DEF RequestRec
<1>9. Scoped(q)'
  <2>1. r.call.kind = "both" => request'[q].at > 3
    BY <1>3, <1>4, <1>8
  <2>2. /\ r.call.kind # "platform" => r.call.host \in Tenants
        /\ Permitted(r.call)
        /\ r.call.kind # "fallback" => r.saw \subseteq {r.call.host}
    BY <1>2, <1>3 DEF Scoped, r
  <2>3. pc = "running" => r.call.kind = "platform"
    BY <1>7
  <2>4. pc \notin {"new", "opening_public"}
    BY <1>7
  <2>5. r.call.kind = "platform" => pc # "rescoping" 
    BY DEF pc
  <2>6. request'[q].conn = request'[q].public => request'[q].conn = NoConn
    BY <1>8
  <2>7. /\ request'[q].call = r.call /\ request'[q].pc = pc /\ request'[q].saw = r.saw
    BY <1>8
  <2>8. r.call.kind = "platform" => r.call.kind \notin Home /\ r.call.kind # "both"
    BY DEF Home
  <2> QED
    BY <2>1, <2>2, <2>3, <2>4, <2>5, <2>6, <2>7, <2>8 DEF Scoped
<1>10. Held(q)' = {r.public} \ {NoConn}
  BY <1>8 DEF Held
<1>11. Held(q) = ({r.public} \ {NoConn}) \cup ({r.conn} \ {NoConn})
  BY DEF Held, r
<1>12. r.conn = r.public => r.conn = NoConn
  BY <1>2 DEF Scoped, r
<1>13. Held(q)' \cup In(free') \subseteq Held(q) \cup In(free)
  BY <1>5, <1>10, <1>11
<1>14. Held(q)' \cap In(free') = {}
  BY <1>2, <1>5, <1>10, <1>11, <1>12
<1> QED
  BY <1>1, <1>2, <1>5, <1>6, <1>8, <1>9, <1>13, <1>14, RequestStepKeepsScopes

LEMMA RescopeKeeps ==
    ASSUME SessionInv, NEW q \in Requests, Rescope(q)
    PROVE  SessionInv'
<1> DEFINE r == request[q]
           c == Head(free)
           b == [r EXCEPT !.conn = c, !.txn = "open", !.before = path[c], !.pc = "running"]
<1>1. /\ r.pc = "rescoping" /\ UNCHANGED <<signing, cached, scenario>> /\ free # <<>>
      /\ free' = Tail(free) /\ path' = [path EXCEPT ![c] = r.call.host]
      /\ request' = [request EXCEPT ![q] = b]
  BY DEF Rescope, keyVars
<1>2. /\ r \in RequestRec /\ request \in [Requests -> RequestRec] /\ Scoped(q)
      /\ signing \in Keys /\ cached \in 0 .. MaxKeys /\ path \in [Conns -> Schemas]
      /\ Held(q) \cap In(free) = {} /\ NoConn \notin Conns /\ r.call \in Call
  BY StepFacts
<1>3. /\ c \in Conns /\ c \in In(free) /\ c \notin Held(q)
      /\ free' \in Seq(Conns) /\ Distinct(free') /\ In(free') = In(free) \ {c}
  BY <1>1, TakeLemma
<1>4. request'[q] = b /\ request' = [request EXCEPT ![q] = request'[q]]
  BY <1>1, <1>2
<1>5. Permitted(r.call) /\ (r.call.kind # "platform" => r.call.host \in Tenants)
  BY <1>1, <1>2 DEF Scoped
<1>6. c # r.public
  BY <1>2, <1>3 DEF Held
<1>7. path[c] \in Schemas
  BY <1>2, <1>3
<1> HIDE DEF c, r
<1>8. /\ request'[q] \in RequestRec /\ request'[q].call = r.call /\ request'[q].pc = "running"
      /\ request'[q].conn = c /\ request'[q].public = r.public /\ request'[q].saw = r.saw
      /\ request'[q].at = r.at
  BY ZenonT(30), <1>2, <1>3, <1>4, <1>7 DEF RequestRec, RequestPC
<1>9. path'[c] = r.call.host /\ \A x \in Conns : x # c => path'[x] = path[x]
  BY <1>1, <1>2, <1>3
<1>10. r.call.kind = "both" => r.at # 1
  <2>1. r.at \in 1 .. 6
    BY StepFacts DEF r
  <2> QED
    BY <1>1, <1>2, <2>1 DEF Scoped, r
<1>11. Scoped(q)'
  BY <1>2, <1>3, <1>5, <1>6, <1>8, <1>9, <1>10 DEF Scoped, r
<1>12. Held(q)' \subseteq {c} \cup Held(q)
  BY <1>8 DEF Held, r
<1>13. path' \in [Conns -> Schemas]
  <2>1. r.call.host \in Schemas
    BY <1>1, <1>2, <1>5 DEF Scoped, Schemas, r
  <2> QED
    BY <1>1, <1>2, <2>1
<1> QED
  BY ZenonT(30), <1>1, <1>2, <1>3, <1>4, <1>8, <1>9, <1>11, <1>12, <1>13, RequestStepKeepsScopes

(* What a rollback does to the paths. *)
LEMMA PathAfterRollbackFacts ==
    ASSUME SessionInv, NEW q \in Requests
    PROVE  /\ PathAfterRollback(q) \in [Conns -> Schemas]
           /\ \A x \in Conns : x # request[q].conn => PathAfterRollback(q)[x] = path[x]
<1>1. request[q] \in RequestRec /\ path \in [Conns -> Schemas]
  BY StepFacts
<1>2. request[q].before \in Schemas
  BY <1>1 DEF RequestRec
<1> QED
  BY <1>1, <1>2 DEF PathAfterRollback

LEMMA RollbackKeeps ==
    ASSUME SessionInv, NEW q \in Requests, Rollback(q)
    PROVE  SessionInv'
<1> DEFINE r == request[q]
<1>1. /\ Does(q, "rollback") /\ UNCHANGED <<signing, cached, scenario>>
      /\ path' = PathAfterRollback(q)
      /\ free' = IF request[q].conn = NoConn THEN free ELSE Append(free, request[q].conn)
      /\ request' = [request EXCEPT ![q] = [r EXCEPT
                        !.conn = NoConn, !.txn = "none", !.at = r.at + 1]]
  BY DEF Rollback, keyVars
<1>2. /\ r \in RequestRec /\ request \in [Requests -> RequestRec] /\ Scoped(q)
      /\ signing \in Keys /\ cached \in 0 .. MaxKeys /\ path \in [Conns -> Schemas]
      /\ Held(q) \cap In(free) = {} /\ NoConn \notin Conns
  BY StepFacts
<1>3. r.pc = "running" /\ r.at \in 1 .. 4 /\ r.call.kind = "fallback"
  BY <1>1, DoesFacts DEF Fits
<1>4. /\ free' \in Seq(Conns) /\ Distinct(free')
      /\ In(free') = In(free) \cup ({r.conn} \ {NoConn})
  BY <1>1, GiveLemma
<1>5. /\ request'[q] = [r EXCEPT !.conn = NoConn, !.txn = "none", !.at = r.at + 1]
      /\ request' = [request EXCEPT ![q] = request'[q]]
  BY <1>1, <1>2
<1>6. /\ path' \in [Conns -> Schemas]
      /\ \A x \in Conns : x \notin Held(q) \cup In(free) => path'[x] = path[x]
  BY <1>1, <1>2, PathAfterRollbackFacts DEF Held
<1> HIDE DEF r
<1>7. r.at + 1 \in 1 .. 6
  BY <1>3
<1>8. /\ request'[q] \in RequestRec /\ request'[q].call = r.call /\ request'[q].pc = r.pc
      /\ request'[q].conn = NoConn /\ request'[q].public = r.public /\ request'[q].saw = r.saw
  BY <1>2, <1>5, <1>7 DEF RequestRec
<1>9. Scoped(q)'
  <2>1. r.call.host \in Tenants /\ Permitted(r.call)
    BY <1>2, <1>3 DEF Scoped, r
  <2>2. request'[q].call.kind = "fallback" /\ request'[q].pc = "running"
    BY <1>3, <1>8
  <2>3. "fallback" \notin Home
    BY DEF Home
  <2> QED
    BY <1>8, <2>1, <2>2, <2>3 DEF Scoped
<1>10. Held(q)' = {r.public} \ {NoConn}
  BY <1>8 DEF Held
<1>11. Held(q) = ({r.public} \ {NoConn}) \cup ({r.conn} \ {NoConn})
  BY DEF Held, r
<1>12. r.conn = r.public => r.conn = NoConn
  BY <1>2 DEF Scoped, r
<1>13. Held(q)' \cup In(free') \subseteq Held(q) \cup In(free)
  BY <1>4, <1>10, <1>11
<1>14. Held(q)' \cap In(free') = {}
  BY <1>2, <1>4, <1>10, <1>11, <1>12
<1> QED
  BY <1>1, <1>2, <1>4, <1>5, <1>6, <1>8, <1>9, <1>13, <1>14, RequestStepKeepsScopes

(* Raise and PoolTimeout. *)
LEMMA FailKeeps ==
    ASSUME SessionInv, NEW q \in Requests, request[q].pc \notin {"new", "refused"},
           request' = [request EXCEPT ![q] = [@ EXCEPT !.pc = "closing", !.result = "failed"]],
           UNCHANGED <<free, path, signing, cached, scenario>>
    PROVE  SessionInv'
<1> DEFINE r == request[q]
<1>1. /\ r \in RequestRec /\ request \in [Requests -> RequestRec] /\ Scoped(q)
      /\ signing \in Keys /\ cached \in 0 .. MaxKeys
  BY StepFacts
<1>2. /\ request'[q] = [r EXCEPT !.pc = "closing", !.result = "failed"]
      /\ request' = [request EXCEPT ![q] = request'[q]]
  BY <1>1
<1> HIDE DEF r
<1>3. /\ request'[q] \in RequestRec /\ request'[q].call = r.call /\ request'[q].pc = "closing"
      /\ request'[q].conn = r.conn /\ request'[q].public = r.public /\ request'[q].saw = r.saw
  BY ZenonT(30), <1>1, <1>2 DEF RequestRec, RequestPC
<1>4. Scoped(q)'
  BY <1>1, <1>3 DEF Scoped, r
<1> QED
  BY <1>1, <1>2, <1>3, <1>4, QuietStepKeepsScopes DEF r

LEMMA CloseKeeps ==
    ASSUME SessionInv, NEW q \in Requests, Close(q)
    PROVE  SessionInv'
<1> DEFINE r    == request[q]
           held == (IF r.public = NoConn THEN <<>> ELSE <<r.public>>)
                     \o (IF r.conn = NoConn THEN <<>> ELSE <<r.conn>>)
           b    == [r EXCEPT !.pc = r.result, !.conn = NoConn, !.public = NoConn,
                             !.txn = "none", !.before = "public", !.at = 1, !.saw = {},
                             !.keys = 0, !.result = "done"]
<1>1. /\ r.pc \in {"closing", "running"} /\ UNCHANGED <<signing, cached, scenario>>
      /\ path' = PathAfterRollback(q) /\ free' = free \o held
      /\ request' = [request EXCEPT ![q] = b]
  BY DEF Close, keyVars
<1>2. /\ r \in RequestRec /\ request \in [Requests -> RequestRec] /\ Scoped(q)
      /\ signing \in Keys /\ cached \in 0 .. MaxKeys /\ path \in [Conns -> Schemas]
      /\ Held(q) \cap In(free) = {} /\ NoConn \notin Conns /\ free \in Seq(Conns) /\ Distinct(free)
      /\ r.conn \in Conns \cup {NoConn} /\ r.public \in Conns \cup {NoConn}
  BY StepFacts
<1>3. Held(q) = {r.public, r.conn} \ {NoConn}
  BY DEF Held
<1>4. r.public = r.conn => r.public = NoConn
  BY <1>2 DEF Scoped
<1>5. r.public \notin In(free) /\ r.conn \notin In(free)
  <2>1. NoConn \notin In(free)
    <3>1. \A i \in 1 .. Len(free) : free[i] \in Conns
      BY <1>2
    <3> QED
      BY <1>2, <3>1 DEF In
  <2> QED
    BY <1>2, <1>3, <2>1
<1>6. /\ free \o held \in Seq(Conns) /\ Distinct(free \o held)
      /\ In(free \o held) = In(free) \cup ({r.public, r.conn} \ {NoConn})
  <2> HIDE DEF r
  <2> QED
    BY <1>2, <1>4, <1>5, GiveBackLemma
<1>7. request'[q] = b /\ request' = [request EXCEPT ![q] = request'[q]]
  BY <1>1, <1>2
<1>8. /\ path' \in [Conns -> Schemas]
      /\ \A x \in Conns : x \notin Held(q) \cup In(free) => path'[x] = path[x]
  BY <1>1, <1>2, PathAfterRollbackFacts DEF Held
<1> HIDE DEF r, held
<1>9. /\ r.result \in {"done", "refused", "failed"} /\ r.result \in RequestPC
  BY <1>2 DEF RequestRec, RequestPC
<1>10. 1 \in 1 .. 6 /\ 0 \in 0 .. MaxKeys /\ {} \in SUBSET Schemas /\ "public" \in Schemas
  BY AuthAssumption DEF AuthAssumption, Schemas
<1>11. /\ request'[q] \in RequestRec /\ request'[q].call = r.call /\ request'[q].pc = r.result
       /\ request'[q].conn = NoConn /\ request'[q].public = NoConn /\ request'[q].saw = {}
  BY ZenonT(30), <1>2, <1>7, <1>9, <1>10 DEF RequestRec
<1>12. Scoped(q)'
  <2>1. r.call.kind # "platform" => r.call.host \in Tenants
    BY <1>1, <1>2 DEF Scoped, r
  <2> QED
    BY <1>9, <1>11, <2>1 DEF Scoped
<1>13. Held(q)' = {}
  BY <1>11 DEF Held
<1> HIDE DEF b
<1>14. /\ free' \in Seq(Conns) /\ Distinct(free')
       /\ Held(q)' \cup In(free') \subseteq Held(q) \cup In(free)
       /\ Held(q)' \cap In(free') = {}
  BY <1>1, <1>3, <1>6, <1>13
<1> QED
  BY <1>1, <1>2, <1>7, <1>8, <1>11, <1>12, <1>14, RequestStepKeepsScopes

LEMMA StepKeeps ==
    ASSUME SessionInv, NEW q \in Requests, Step(q)
    PROVE  SessionInv'
<1>1. CASE Raise(q)
  BY <1>1, FailKeeps DEF Raise, keyVars
<1>2. CASE PoolTimeout(q)
  BY <1>2, FailKeeps DEF PoolTimeout, Waits, Does, keyVars
<1> QED
  BY <1>1, <1>2, ResolveKeeps, AuthKeeps, OpenKeeps, OpenPublicKeeps, StatementKeeps, SetPathKeeps,
     PublicCommitKeeps, CommitKeeps, RescopeKeeps, RollbackKeeps, CloseKeeps DEF Step

(* What happens to the pool and to the keys leaves the requests alone. *)
LEMMA WorldKeeps ==
    ASSUME SessionInv, UNCHANGED <<free, request, scenario>>,
           signing' \in Keys, cached' \in 0 .. MaxKeys, path' \in [Conns -> Schemas],
           \A c \in Conns \ In(free) : path'[c] = path[c]
    PROVE  SessionInv'
<1>1. TypeOK' /\ PoolInv'
  BY DEF SessionInv, TypeOK, PoolInv, Held
<1>2. ASSUME NEW q \in Requests
      PROVE  Scoped(q)'
  <2>1. Scoped(q) /\ Held(q) \cap In(free) = {} /\ NoConn \notin Conns
    BY StepFacts
  <2>2. request[q].conn \in Conns => path'[request[q].conn] = path[request[q].conn]
    BY <2>1 DEF Held
  <2> QED
    BY <2>1, <2>2 DEF Scoped
<1> QED
  BY <1>1, <1>2 DEF SessionInv

LEMMA SessionInductive == SessionInv /\ [Next]_vars => SessionInv'
<1> SUFFICES ASSUME SessionInv, [Next]_vars PROVE SessionInv'
  OBVIOUS
<1>0. /\ signing \in Keys /\ cached \in 0 .. MaxKeys /\ path \in [Conns -> Schemas]
      /\ free \in Seq(Conns)
  BY DEF SessionInv, TypeOK
<1>1. CASE UNCHANGED vars
  BY <1>0, <1>1, WorldKeeps DEF vars
<1>2. ASSUME NEW c \in Conns, Recycle(c)
      PROVE  SessionInv'
  <2>1. /\ path' = [path EXCEPT ![c] = "public"]
        /\ UNCHANGED <<free, request, signing, cached, scenario>>
    BY <1>2 DEF Recycle, keyVars
  <2>2. c \in In(free)
    BY <1>0, <1>2 DEF Recycle, In
  <2>3. path' \in [Conns -> Schemas] /\ \A d \in Conns \ In(free) : path'[d] = path[d]
    BY <1>0, <2>1, <2>2 DEF Schemas
  <2> QED
    BY <1>0, <2>1, <2>3, WorldKeeps
<1>3. CASE KeysExpire
  <2>1. 0 \in 0 .. MaxKeys
    BY AuthAssumption DEF AuthAssumption
  <2> QED
    BY <1>0, <1>3, <2>1, WorldKeeps DEF KeysExpire, poolVars
<1>4. CASE Rotate
  <2>1. signing + 1 \in Keys
    BY <1>0, <1>4, AuthAssumption DEF AuthAssumption, Keys, Rotate
  <2> QED
    BY <1>0, <1>4, <2>1, WorldKeeps DEF Rotate, poolVars
<1> QED
  BY <1>1, <1>2, <1>3, <1>4, ArriveKeeps, StepKeeps DEF Next

-----------------------------------------------------------------------------
(* The state of the requests, of the pool and of the keys is well-formed   *)
(* in every behaviour.                                                     *)
THEOREM SessionTypeCorrect == Spec => []TypeOK
<1>1. SessionInv => TypeOK
  BY DEF SessionInv
<1> QED
  BY <1>1, SessionInit, SessionInductive, PTL DEF Spec

(* No statement of a handler runs in the schema of another tenant or in    *)
(* public, whatever the requests before left on the connection, however    *)
(* many requests share however few connections, and whatever fails between *)
(* two of them: get_db sets the search_path before the handler begins and  *)
(* _TenantScopedSession again after each commit (handlers of kind          *)
(* "fallback" excepted).                                                   *)
THEOREM OwnSchemaHolds == Spec => []OwnSchema
<1>1. SessionInv => OwnSchema
  <2> SUFFICES ASSUME SessionInv, NEW q \in Requests, request[q].call.kind # "fallback"
               PROVE  /\ request[q].saw \subseteq {request[q].call.host}
                      /\ request[q].saw # {} => \/ request[q].call.role = "SUPER_ADMIN"
                                                \/ request[q].call.tenant = request[q].call.host
    BY DEF OwnSchema
  <2>1. Scoped(q)
    BY DEF SessionInv
  <2> QED
    BY <2>1 DEF Scoped, Permitted
<1> QED
  BY <1>1, SessionInit, SessionInductive, PTL DEF Spec

-----------------------------------------------------------------------------
(* The tokens.                                                             *)

Lone == \A p, q \in Requests : ~ AtRest(p) /\ ~ AtRest(q) => p = q

(* Who asks for the keys a second time finds no entry in Redis. *)
AskedAgain ==
    \A q \in Requests :
        /\ request[q].pc \in {"new", "resolving"} => ~ request[q].again
        /\ request[q].pc = "reading_keys" /\ request[q].again => cached = 0

TokenIInv ==
    /\ \A q \in Requests : request[q].key <= signing
    /\ \A q \in Requests : request[q].pc = "storing_keys" => request[q].key <= request[q].keys
    /\ "rotation" \notin scenario.events => signing = 1
    /\ "overlap" \notin scenario.events => Lone
    /\ scenario.events \cap {"overlap", "delete_failures"} = {} => AskedAgain
    /\ GoodTokenAccepted

LEMMA OthersStay ==
    ASSUME TypeOK, NEW q \in Requests, Arrive(q) \/ Step(q)
    PROVE  /\ \A p \in Requests \ {q} : request'[p] = request[p]
           /\ UNCHANGED <<signing, scenario>>
<1> USE DEF keyVars, poolVars, Goes
<1>1. CASE Arrive(q)
  BY <1>1 DEF Arrive, TypeOK
<1>2. CASE Resolve(q)
  BY <1>2 DEF Resolve, TypeOK
<1>3. CASE AuthStep(q)
  BY <1>3 DEF AuthStep, ReadKeys, FetchKeys, FetchError, StoreKeys, DropKeys, TypeOK
<1>4. CASE Open(q)
  BY <1>4 DEF Open, TypeOK
<1>5. CASE OpenPublic(q) \/ Statement(q) \/ SetPath(q)
  BY <1>5 DEF OpenPublic, Statement, SetPath, TypeOK
<1>6. CASE PublicCommit(q) \/ Commit(q) \/ Rescope(q)
  BY <1>6 DEF PublicCommit, Commit, Rescope, TypeOK
<1>7. CASE Rollback(q) \/ Raise(q) \/ Close(q) \/ PoolTimeout(q)
  BY <1>7 DEF Rollback, Raise, Close, PoolTimeout, Waits, TypeOK
<1> QED
  BY <1>1, <1>2, <1>3, <1>4, <1>5, <1>6, <1>7 DEF Step

(* From its sessions on a request leaves its key alone, and the keys of    *)
(* the provider too.                                                       *)
Late == {"opening_public", "running", "rescoping", "closing", "done", "refused", "failed"}

LEMMA SessionSteps ==
    ASSUME TypeOK, NEW q \in Requests, Step(q), ~ AuthStep(q), ~ Resolve(q)
    PROVE  /\ request'[q].key = request[q].key /\ request'[q].pc \in Late
           /\ ~ AtRest(q) /\ cached' = cached
<1>0. request[q] \in RequestRec /\ request \in [Requests -> RequestRec]
  BY DEF TypeOK
<1> USE DEF keyVars, Goes, AtRest, Late
<1>1. CASE Open(q)
  <2> DEFINE r == [request[q] EXCEPT !.conn = Head(free), !.txn = "auto"]
  <2>1. /\ \/ request' = [request EXCEPT ![q].pc = "refused"]
           \/ request' = [request EXCEPT ![q] = [r EXCEPT !.pc = "opening_public"]]
           \/ request' = [request EXCEPT ![q] = Begins(request[q].call, r)]
        /\ request[q].pc = "opening" /\ cached' = cached
    BY <1>1 DEF Open
  <2>2. \/ request'[q] = [request[q] EXCEPT !.pc = "refused"]
        \/ request'[q] = [r EXCEPT !.pc = "opening_public"]
        \/ request'[q] = [r EXCEPT !.pc = "running"]
        \/ request'[q] = [r EXCEPT !.pc = "closing", !.result = "refused"]
    BY <1>0, <2>1 DEF Begins
  <2> QED
    BY <1>0, <2>1, <2>2 DEF RequestRec
<1>2. CASE OpenPublic(q)
  BY <1>0, <1>2 DEF OpenPublic, Begins, RequestRec
<1>3. CASE Statement(q)
  BY <1>0, <1>3 DEF Statement, Does, RequestRec
<1>4. CASE SetPath(q)
  BY <1>0, <1>4 DEF SetPath, Does, RequestRec
<1>5. CASE PublicCommit(q)
  BY <1>0, <1>5 DEF PublicCommit, Does, RequestRec
<1>6. CASE Commit(q)
  BY <1>0, <1>6 DEF Commit, Does, RequestRec
<1>7. CASE Rescope(q)
  BY <1>0, <1>7 DEF Rescope, RequestRec
<1>8. CASE Rollback(q)
  BY <1>0, <1>8 DEF Rollback, Does, RequestRec
<1>9. CASE Raise(q)
  BY <1>0, <1>9 DEF Raise, RequestRec
<1>10. CASE Close(q)
  BY <1>0, <1>10 DEF Close, RequestRec
<1>11. CASE PoolTimeout(q)
  BY <1>0, <1>11 DEF PoolTimeout, Waits, Does, RequestRec
<1> QED
  BY <1>1, <1>2, <1>3, <1>4, <1>5, <1>6, <1>7, <1>8, <1>9, <1>10, <1>11 DEF Step

LEMMA ArriveDoes ==
    ASSUME TypeOK, NEW q \in Requests, Arrive(q)
    PROVE  /\ request'[q].key = signing /\ request'[q].again = request[q].again
           /\ request[q].pc = "new" /\ request'[q].pc \in {"reading_keys", "refused", "resolving"}
           /\ cached' = cached
           /\ "overlap" \in scenario.events \/ \A p \in Requests : AtRest(p)
<1>1. PICK call \in scenario.asked :
          request' = [request EXCEPT ![q] = [@ EXCEPT
                         !.call = call, !.key = signing,
                         !.pc = IF call.kind = "platform" THEN "reading_keys"
                                ELSE IF call.host = NoTenant THEN "refused" ELSE "resolving"]]
  BY DEF Arrive
<1> DEFINE to == IF call.kind = "platform" THEN "reading_keys"
                 ELSE IF call.host = NoTenant THEN "refused" ELSE "resolving"
<1>2. to \in {"reading_keys", "refused", "resolving"}
  OBVIOUS
<1>3. request'[q] = [request[q] EXCEPT !.call = call, !.key = signing, !.pc = to]
  BY <1>1 DEF TypeOK
<1> HIDE DEF to
<1>4. /\ request'[q].key = signing /\ request'[q].again = request[q].again
      /\ request'[q].pc = to
  BY <1>3 DEF TypeOK, RequestRec
<1> QED
  BY <1>2, <1>4 DEF Arrive, keyVars

LEMMA ResolveDoes ==
    ASSUME TypeOK, NEW q \in Requests, Resolve(q)
    PROVE  /\ request'[q].key = request[q].key /\ request'[q].again = request[q].again
           /\ request[q].pc = "resolving" /\ request'[q].pc \in {"reading_keys", "refused"}
           /\ cached' = cached
<1>1. PICK to \in {"reading_keys", "refused"} : request' = [request EXCEPT ![q].pc = to]
  BY DEF Resolve, Goes
<1>2. request'[q] = [request[q] EXCEPT !.pc = to]
  BY <1>1 DEF TypeOK
<1> QED
  BY <1>2 DEF Resolve, keyVars, TypeOK, RequestRec

(* What the steps of verify_token do to a token. *)
LEMMA AuthDoes ==
    ASSUME TypeOK, NEW q \in Requests, AuthStep(q)
    PROVE  /\ request'[q].key = request[q].key
           /\ request[q].pc \in {"reading_keys", "fetching_keys", "storing_keys", "dropping_keys"}
           /\ \/ /\ request[q].pc = "reading_keys" /\ cached' = cached
                 /\ request'[q].pc = "fetching_keys"
                    \/ (cached # 0 /\ request'[q].pc = With(q, cached))
              \/ /\ request[q].pc = "fetching_keys" /\ request'[q].pc = "storing_keys"
                 /\ request'[q].keys = signing /\ cached' = cached
              \/ request[q].pc = "fetching_keys" /\ request'[q].pc = "failed" /\ cached' = cached
              \/ /\ request[q].pc = "storing_keys"
                 /\ request'[q].pc = With(q, request[q].keys)
              \/ /\ request[q].pc = "dropping_keys" /\ request'[q].pc = "reading_keys"
                 /\ cached' = 0 \/ "delete_failures" \in scenario.events
<1>0. request[q] \in RequestRec /\ request \in [Requests -> RequestRec]
  BY DEF TypeOK
<1>1. ASSUME NEW to, Goes(q, to)
      PROVE  request'[q].key = request[q].key /\ request'[q].pc = to
  <2>1. request'[q] = [request[q] EXCEPT !.pc = to]
    BY <1>0, <1>1 DEF Goes
  <2> QED
    BY <1>0, <2>1 DEF RequestRec
<1>2. CASE ReadKeys(q)
  BY <1>1, <1>2 DEF ReadKeys
<1>3. CASE FetchKeys(q)
  <2>1. request'[q] = [request[q] EXCEPT !.pc = "storing_keys", !.keys = signing]
    BY <1>0, <1>3 DEF FetchKeys
  <2>2. /\ request'[q].key = request[q].key /\ request'[q].pc = "storing_keys"
        /\ request'[q].keys = signing
    BY <1>0, <2>1 DEF RequestRec
  <2> QED
    BY <1>3, <2>2 DEF FetchKeys
<1>4. CASE FetchError(q)
  BY <1>1, <1>4 DEF FetchError, poolVars
<1>5. CASE StoreKeys(q)
  BY <1>1, <1>5 DEF StoreKeys
<1>6. CASE DropKeys(q)
  <2>1. request'[q] = [request[q] EXCEPT !.pc = "reading_keys", !.again = TRUE]
    BY <1>0, <1>6 DEF DropKeys
  <2>2. request'[q].key = request[q].key /\ request'[q].pc = "reading_keys"
    BY <1>0, <2>1 DEF RequestRec
  <2> QED
    BY <1>6, <2>2 DEF DropKeys
<1> QED
  BY <1>2, <1>3, <1>4, <1>5, <1>6 DEF AuthStep

(* With the key of a token among those it has, a request goes on.          *)
LEMMA WithFacts ==
    ASSUME NEW q \in Requests, NEW keys
    PROVE  /\ request[q].key <= keys => With(q, keys) = "opening"
           /\ With(q, keys) \in {"opening", "unauthorized", "dropping_keys"}
           /\ With(q, keys) = "unauthorized" => request[q].again
BY DEF With

LEMMA RequestKeepsTokens ==
    ASSUME TypeOK, TokenIInv, NEW q \in Requests, Arrive(q) \/ Step(q), TypeOK'
    PROVE  TokenIInv'
<1>1. /\ \A p \in Requests \ {q} : request'[p] = request[p]
      /\ UNCHANGED <<signing, scenario>>
  BY OthersStay
<1>2. /\ signing \in Nat /\ cached \in Nat /\ request[q].key \in Nat /\ request[q].key >= 1
      /\ request[q].keys \in Nat
  BY AuthAssumption DEF AuthAssumption, TypeOK, RequestRec, Keys
<1>3. request[q].key <= signing
  BY DEF TokenIInv
<1>4. request[q].pc = "storing_keys" => request[q].key <= request[q].keys
  BY DEF TokenIInv
<1>5. \A p \in Requests : request'[p].key <= signing'
  <2>1. request'[q].key \in {signing, request[q].key}
    BY ArriveDoes, ResolveDoes, AuthDoes, SessionSteps
  <2> QED
    BY <1>1, <1>2, <1>3, <2>1 DEF TokenIInv
<1>6. \A p \in Requests : request'[p].pc = "storing_keys" => request'[p].key <= request'[p].keys
  <2>1. request'[q].pc = "storing_keys" => request'[q].key <= request'[q].keys
    <3>1. CASE AuthStep(q)
      <4>1. request'[q].pc = "storing_keys" =>
               request'[q].key = request[q].key /\ request'[q].keys = signing
        BY <3>1, AuthDoes, WithFacts
      <4> QED
        BY <1>3, <4>1
    <3>2. CASE ~ AuthStep(q)
      BY <3>2, ArriveDoes, ResolveDoes, SessionSteps DEF Late
    <3> QED
      BY <3>1, <3>2
  <2> QED
    BY <1>1, <2>1 DEF TokenIInv
<1>7. ("rotation" \notin scenario.events => signing = 1)'
  BY <1>1 DEF TokenIInv
<1>8. ASSUME "overlap" \notin scenario.events
      PROVE  Lone' /\ ("delete_failures" \notin scenario.events => AskedAgain')
  <2>1. Lone /\ ("delete_failures" \notin scenario.events => AskedAgain)
    BY <1>8 DEF TokenIInv
  <2>2. \A p \in Requests \ {q} : AtRest(p)
    <3>1. CASE Arrive(q)
      BY <1>8, <3>1, ArriveDoes
    <3>2. CASE Step(q)
      <4>1. ~ AtRest(q)
        BY <3>2, ResolveDoes, AuthDoes, SessionSteps DEF AtRest
      <4> QED
        BY <2>1, <4>1 DEF Lone
    <3> QED
      BY <3>1, <3>2
  <2>3. \A p \in Requests \ {q} : AtRest(p)'
    BY <1>1, <2>2 DEF AtRest
  <2>4. Lone'
    BY <2>3 DEF Lone
  <2>5. ASSUME "delete_failures" \notin scenario.events
        PROVE  /\ request'[q].pc \in {"new", "resolving"} => ~ request'[q].again
               /\ request'[q].pc = "reading_keys" /\ request'[q].again => cached' = 0
    <3>1. CASE AuthStep(q)
      BY <2>5, <3>1, AuthDoes, WithFacts
    <3>2. CASE ~ AuthStep(q)
      BY <2>1, <2>5, <3>2, ArriveDoes, ResolveDoes, SessionSteps DEF AskedAgain, Late
    <3> QED
      BY <3>1, <3>2
  <2>6. "delete_failures" \notin scenario.events => AskedAgain'
    BY <1>1, <2>1, <2>3, <2>5 DEF AskedAgain, AtRest
  <2> QED
    BY <2>4, <2>6
<1>9. GoodTokenAccepted'
  <2> SUFFICES ASSUME \/ "rotation" \notin scenario.events
                      \/ scenario.events \cap {"overlap", "delete_failures"} = {}
               PROVE  \A p \in Requests : request'[p].pc # "unauthorized"
    BY <1>1 DEF GoodTokenAccepted
  <2>1. \A p \in Requests : request[p].pc # "unauthorized"
    BY DEF TokenIInv, GoodTokenAccepted
  <2>2. CASE AuthStep(q)
    <3>1. ASSUME request[q].pc = "reading_keys", cached # 0, request'[q].pc = With(q, cached)
          PROVE  request'[q].pc # "unauthorized"
      <4>1. CASE "rotation" \notin scenario.events
        <5>1. request[q].key <= cached
          BY <1>2, <1>3, <3>1, <4>1 DEF TokenIInv
        <5> QED
          BY <3>1, <5>1, WithFacts
      <4>2. CASE scenario.events \cap {"overlap", "delete_failures"} = {}
        <5>1. ~ request[q].again
          BY <3>1, <4>2 DEF TokenIInv, AskedAgain
        <5> QED
          BY <3>1, <5>1, WithFacts
      <4> QED
        BY <4>1, <4>2
    <3>2. request'[q].pc # "unauthorized"
      BY <1>4, <2>2, <3>1, AuthDoes, WithFacts
    <3> QED
      BY <1>1, <2>1, <3>2
  <2>3. CASE ~ AuthStep(q)
    <3>1. request'[q].pc # "unauthorized"
      BY <2>3, ArriveDoes, ResolveDoes, SessionSteps DEF Late
    <3> QED
      BY <1>1, <2>1, <3>1
  <2> QED
    BY <2>2, <2>3
<1> QED
  BY <1>1, <1>5, <1>6, <1>7, <1>8, <1>9 DEF TokenIInv

LEMMA TokenInductive == TypeOK /\ TokenIInv /\ [Next]_vars /\ TypeOK' => TokenIInv'
<1> SUFFICES ASSUME TypeOK, TokenIInv, [Next]_vars, TypeOK'
             PROVE  TokenIInv'
  OBVIOUS
<1>1. ASSUME NEW q \in Requests, Arrive(q) \/ Step(q)
      PROVE  TokenIInv'
  BY <1>1, RequestKeepsTokens
<1>2. CASE KeysExpire \/ UNCHANGED vars \/ \E c \in Conns : Recycle(c)
  <2>1. UNCHANGED <<request, signing, scenario>> /\ cached' \in {cached, 0}
    BY <1>2 DEF KeysExpire, Recycle, vars, keyVars, poolVars
  <2> QED
    BY <2>1 DEF TokenIInv, Lone, AskedAgain, AtRest, GoodTokenAccepted
<1>3. CASE Rotate
  <2>1. /\ UNCHANGED <<request, cached, scenario>> /\ signing' = signing + 1
        /\ "rotation" \in scenario.events
    BY <1>3 DEF Rotate, poolVars
  <2>2. \A q \in Requests : request[q].key \in Nat /\ signing \in Nat
    BY DEF TypeOK, RequestRec, Keys
  <2>3. \A q \in Requests : request'[q].key <= signing'
    BY <2>1, <2>2 DEF TokenIInv
  <2> QED
    BY <2>1, <2>3 DEF TokenIInv, Lone, AskedAgain, AtRest, GoodTokenAccepted
<1> QED
  BY <1>1, <1>2, <1>3 DEF Next

(* No request whose token is signed with a key of the provider is refused  *)
(* for it, whatever the cache holds, however often it expires and whether  *)
(* or not it can be read and written, if the keys are not rotated, or if   *)
(* requests do not overlap and the entry that lacks a key can be deleted.  *)
THEOREM GoodTokensAreAccepted == Spec => []GoodTokenAccepted
<1>1. Init => TokenIInv
  BY DEF Init, TokenIInv, Lone, AskedAgain, AtRest, GoodTokenAccepted
<1>2. TypeOK /\ TokenIInv /\ [Next]_vars /\ TypeOK' => TokenIInv'
  BY TokenInductive
<1>3. TokenIInv => GoodTokenAccepted
  BY DEF TokenIInv
<1> QED
  BY <1>1, <1>2, <1>3, SessionTypeCorrect, PTL DEF Spec
=================================================================================
