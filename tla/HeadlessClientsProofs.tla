------------------------- MODULE HeadlessClientsProofs -------------------------
(***************************************************************************)
(* The safety of HeadlessClients for any finite set of client objects, any *)
(* set of requests and any numbers of clients they ask for.                *)
(***************************************************************************)
EXTENDS HeadlessClients, FiniteSetTheorems, TLAPS

(***************************************************************************)
(* The stack.                                                              *)
(***************************************************************************)

LEMMA PushedStack ==
  ASSUME NEW s \in Seq(Clients), IsInjective(s), NEW c \in Clients, c \notin Range(s)
  PROVE  /\ <<c>> \o s \in Seq(Clients) /\ IsInjective(<<c>> \o s)
         /\ Range(<<c>> \o s) = Range(s) \cup {c}
<1> DEFINE t == <<c>> \o s
<1>1. /\ t \in Seq(Clients) /\ Len(t) = Len(s) + 1 /\ Len(s) \in Nat
      /\ t[1] = c /\ \A i \in 1 .. Len(s) : t[i + 1] = s[i]
      /\ \A i \in 2 .. Len(s) + 1 : t[i] = s[i - 1] /\ i - 1 \in 1 .. Len(s)
  OBVIOUS
<1>2. DOMAIN t = 1 .. Len(s) + 1 /\ DOMAIN s = 1 .. Len(s)
  BY <1>1
<1> HIDE DEF t
<1>3. \A i \in 1 .. Len(s) : s[i] \in Range(s)
  BY <1>2 DEF Range
<1>4. IsInjective(t)
  <2> SUFFICES ASSUME NEW i \in 1 .. Len(s) + 1, NEW j \in 1 .. Len(s) + 1, t[i] = t[j]
               PROVE  i = j
    BY <1>2 DEF IsInjective
  <2>1. \A k \in 1 .. Len(s) + 1 :
          k # 1 => t[k] = s[k - 1] /\ k - 1 \in 1 .. Len(s) /\ t[k] \in Range(s)
    <3> SUFFICES ASSUME NEW k \in 1 .. Len(s) + 1, k # 1
                 PROVE  t[k] = s[k - 1] /\ k - 1 \in 1 .. Len(s) /\ t[k] \in Range(s)
      OBVIOUS
    <3>1. k \in 2 .. Len(s) + 1
      BY <1>1
    <3> QED
      BY <1>1, <1>3, <3>1
  <2>2. CASE i = 1 \/ j = 1
    BY <1>1, <2>1, <2>2
  <2>3. CASE i # 1 /\ j # 1
    <3>1. s[i - 1] = s[j - 1] /\ i - 1 \in DOMAIN s /\ j - 1 \in DOMAIN s
      BY <1>2, <2>1, <2>3
    <3>2. i - 1 = j - 1
      BY ONLY <3>1, IsInjective(s), Zenon DEF IsInjective
    <3> QED
      BY <3>2
  <2> QED
    BY <2>2, <2>3
<1>5. Range(t) = Range(s) \cup {c}
  <2>1. ASSUME NEW i \in 1 .. Len(s) + 1 PROVE t[i] \in Range(s) \cup {c}
    <3>1. CASE i = 1
      BY <1>1, <3>1
    <3>2. CASE i # 1
      <4>1. i \in 2 .. Len(s) + 1
        BY <1>1, <3>2
      <4> QED
        BY <1>1, <1>3, <4>1
    <3> QED
      BY <3>1, <3>2
  <2>2. ASSUME NEW i \in 1 .. Len(s) PROVE s[i] \in Range(t)
    <3>1. i + 1 \in DOMAIN t /\ t[i + 1] = s[i]
      BY <1>1, <1>2
    <3> QED
      BY <3>1 DEF Range
  <2>3. c \in Range(t)
    <3>1. 1 \in DOMAIN t
      BY <1>1, <1>2
    <3> QED
      BY <1>1, <3>1 DEF Range
  <2>4. \A x \in Range(t) : x \in Range(s) \cup {c}
    BY <1>2, <2>1 DEF Range
  <2>5. \A x \in Range(s) : x \in Range(t)
    BY <1>2, <2>2 DEF Range
  <2> QED
    BY <2>3, <2>4, <2>5
<1> QED
  BY <1>1, <1>4, <1>5 DEF t

LEMMA PoppedStack ==
  ASSUME NEW s \in Seq(Clients), IsInjective(s), NEW k \in 0 .. Len(s)
  PROVE  LET t == SubSeq(s, k + 1, Len(s))
             p == {s[i] : i \in 1 .. k}
         IN /\ t \in Seq(Clients) /\ IsInjective(t)
            /\ p \subseteq Range(s) /\ Range(t) = Range(s) \ p
            /\ IsFiniteSet(p) /\ Cardinality(p) = k
<1> DEFINE t == SubSeq(s, k + 1, Len(s))
           p == {s[i] : i \in 1 .. k}
<1>1. /\ t \in Seq(Clients) /\ Len(t) = Len(s) - k /\ Len(s) \in Nat
      /\ \A i \in 1 .. Len(s) - k : t[i] = s[i + k] /\ i + k \in 1 .. Len(s)
      /\ \A i \in k + 1 .. Len(s) : s[i] = t[i - k] /\ i - k \in 1 .. Len(s) - k
  OBVIOUS
<1>2. DOMAIN t = 1 .. Len(s) - k /\ DOMAIN s = 1 .. Len(s)
  BY <1>1
<1>3. \A i, j \in 1 .. Len(s) : s[i] = s[j] => i = j
  BY <1>2 DEF IsInjective
<1> HIDE DEF t
<1>4. IsInjective(t)
  <2> SUFFICES ASSUME NEW i \in 1 .. Len(s) - k, NEW j \in 1 .. Len(s) - k, t[i] = t[j]
               PROVE  i = j
    BY <1>2 DEF IsInjective
  <2> QED
    BY <1>1, <1>3
<1>5. p \subseteq Range(s)
  BY <1>2 DEF Range
<1>6. Range(t) = Range(s) \ p
  <2>1. ASSUME NEW i \in 1 .. Len(s) - k PROVE t[i] \in Range(s) \ p
    <3>1. t[i] = s[i + k] /\ i + k \in 1 .. Len(s)
      BY <1>1
    <3>2. \A j \in 1 .. k : s[j] # s[i + k]
      BY <1>3, <3>1
    <3> QED
      BY <1>2, <3>1, <3>2 DEF Range
  <2>2. ASSUME NEW i \in 1 .. Len(s), s[i] \notin p PROVE s[i] \in Range(t)
    <3>1. i \in k + 1 .. Len(s)
      BY <2>2
    <3>2. s[i] = t[i - k] /\ i - k \in DOMAIN t
      BY <1>1, <1>2, <3>1
    <3> QED
      BY <3>2 DEF Range
  <2>3. \A x \in Range(t) : x \in Range(s) \ p
    BY <1>2, <2>1 DEF Range
  <2>4. \A x \in Range(s) \ p : x \in Range(t)
    BY <1>2, <2>2 DEF Range
  <2> QED
    BY <2>3, <2>4
<1>7. IsFiniteSet(p) /\ Cardinality(p) = k
  <2> DEFINE f == [i \in 1 .. k |-> s[i]]
  <2>1. f \in Bijection(1 .. k, p)
    <3>1. f \in [1 .. k -> p] /\ DOMAIN f = 1 .. k /\ \A i \in 1 .. k : f[i] = s[i]
      OBVIOUS
    <3>2. \A i, j \in 1 .. k : f[i] = f[j] => i = j
      BY <1>3, <3>1
    <3>3. \A x \in p : \E i \in 1 .. k : f[i] = x
      BY <3>1
    <3> HIDE DEF f
    <3> QED
      BY <3>1, <3>2, <3>3 DEF Bijection, Injection, Surjection, IsInjective
  <2>2. IsFiniteSet(1 .. k) /\ Cardinality(1 .. k) = k
    BY FS_Interval
  <2> QED
    BY <2>1, <2>2, FS_Bijection DEF ExistsBijection
<1> QED
  BY <1>1, <1>4, <1>5, <1>6, <1>7 DEF t

(***************************************************************************)
(* Requests and tasks, field by field.                                     *)
(***************************************************************************)

LEMMA Constants ==
  /\ IsFiniteSet(Clients) /\ Counts \subseteq Nat /\ StartCounts \subseteq Nat
  /\ NoClient \notin Clients /\ NoRequest \notin Requests
BY HeadlessAssumption

LEMMA Records ==
  /\ NoTask \in TaskRecord /\ NoTask.pc = "none" /\ NoTask.todo = {} /\ NoTask.wait = {}
  /\ NoTask.cur = NoClient
  /\ NoRequestYet \in RequestRecord /\ NoRequestYet.pc = "idle"
  /\ NoRequestYet.todo = {} /\ NoRequestYet.wait = {}
BY DEF NoTask, TaskRecord, NoRequestYet, RequestRecord

RequestPc == {"idle", "done", "count", "remove", "pop", "close", "create", "add", "pushed",
              "start", "launch"}

\* The fields of a request have their types.
LEMMA RequestFields ==
  ASSUME NEW x \in RequestRecord
  PROVE  /\ x.desired \in Nat /\ x.change \in Int /\ x.todo \subseteq Clients
         /\ x.wait \subseteq Clients /\ x.cur \in Clients \cup {NoClient}
         /\ x.nulls \in BOOLEAN /\ x.failed \in BOOLEAN
<1>1. /\ x.desired \in Counts \cup {0} /\ x.change \in Int /\ x.todo \subseteq Clients
      /\ x.wait \subseteq Clients /\ x.cur \in Clients \cup {NoClient}
      /\ x.nulls \in BOOLEAN /\ x.failed \in BOOLEAN
  BY DEF RequestRecord
<1>2. \A d \in Counts \cup {0} : d \in Nat
  BY Constants
<1> QED
  BY ONLY <1>1, <1>2, Zenon

\* A step of request r alone, and what it leaves of the request.  The two flags are
\* kept apart, since few proofs need them.
Moves(r, pc, desired, change, todo, wait, cur) ==
  /\ request' \in [Requests -> RequestRecord]
  /\ request'[r].pc = pc /\ request'[r].desired = desired /\ request'[r].change = change
  /\ request'[r].todo = todo /\ request'[r].wait = wait /\ request'[r].cur = cur
  /\ \A q \in Requests \ {r} : request'[q] = request[q]

Flags(r, nulls, failed) == request'[r].nulls = nulls /\ request'[r].failed = failed

LEMMA RequestMoves ==
  ASSUME TypeOK, NEW r \in Requests, NEW x \in RequestRecord,
         request' = [request EXCEPT ![r] = x]
  PROVE  /\ request' \in [Requests -> RequestRecord]
         /\ request'[r] = x
         /\ \A q \in Requests \ {r} : request'[q] = request[q]
BY DEF TypeOK

LEMMA BeginMoves ==
  ASSUME TypeOK, NEW r \in Requests, NEW n \in Counts, Begin(r, n), HeadlessClientsConnected \in Nat
  PROVE  Moves(r, IF HeadlessClientsConnected > n THEN "count" ELSE "create", n,
               n - HeadlessClientsConnected, {}, {}, NoClient) /\ Flags(r, FALSE, FALSE)
<1> DEFINE pc == IF HeadlessClientsConnected > n THEN "count" ELSE "create"
           x == [NoRequestYet EXCEPT !.desired = n, !.failed = FALSE,
                   !.change = n - HeadlessClientsConnected, !.pc = pc]
<1>1. pc \in RequestPc /\ n - HeadlessClientsConnected \in Int
  BY Constants DEF RequestPc
<1> HIDE DEF pc
<1>2. x \in RequestRecord
  BY <1>1, Records DEF RequestRecord, RequestPc
<1>3. /\ x.pc = pc /\ x.desired = n /\ x.change = n - HeadlessClientsConnected
      /\ x.todo = {} /\ x.wait = {} /\ x.cur = NoClient
  BY DEF NoRequestYet
<1>4. x.nulls = FALSE /\ x.failed = FALSE
  BY DEF NoRequestYet
<1>5. request' = [request EXCEPT ![r] = x]
  BY DEF Begin, pc
<1> HIDE DEF x
<1> QED
  BY <1>2, <1>3, <1>4, <1>5, RequestMoves, Zenon DEF Moves, Flags, pc

LEMMA FinishedMoves ==
  ASSUME TypeOK, NEW r \in Requests, Finished(r)
  PROVE  Moves(r, "done", 0, 0, {}, {}, NoClient) /\ Flags(r, FALSE, FALSE)
<1> DEFINE x == [NoRequestYet EXCEPT !.pc = "done"]
<1>1. x \in RequestRecord
  BY Records DEF RequestRecord
<1>2. x.pc = "done" /\ x.desired = 0 /\ x.change = 0 /\ x.todo = {} /\ x.wait = {} /\ x.cur = NoClient
  BY DEF NoRequestYet
<1>3. x.nulls = FALSE /\ x.failed = FALSE
  BY DEF NoRequestYet
<1>4. request' = [request EXCEPT ![r] = x]
  BY DEF Finished
<1> HIDE DEF x
<1> QED
  BY <1>1, <1>2, <1>3, <1>4, RequestMoves, Zenon DEF Moves, Flags

LEMMA CountAgainMoves ==
  ASSUME TypeOK, NEW r \in Requests, HeadlessClientsConnected \in Nat, CountAgain(r)
  PROVE  Moves(r, "remove", request[r].desired, HeadlessClientsConnected - request[r].desired,
               request[r].todo, request[r].wait, request[r].cur) /\ Flags(r, request[r].nulls, request[r].failed)
<1> DEFINE y == request[r]
           x == [y EXCEPT !.pc = "remove", !.change = HeadlessClientsConnected - y.desired]
<1>1. y \in RequestRecord
  BY DEF TypeOK
<1>2. HeadlessClientsConnected - y.desired \in Int
  BY <1>1, RequestFields
<1>3. x \in RequestRecord
  BY <1>1, <1>2 DEF RequestRecord
<1>4. /\ x.pc = "remove" /\ x.desired = y.desired /\ x.change = HeadlessClientsConnected - y.desired
      /\ x.todo = y.todo /\ x.wait = y.wait /\ x.cur = y.cur
  BY <1>1 DEF RequestRecord
<1>5. x.nulls = y.nulls /\ x.failed = y.failed
  BY <1>1 DEF RequestRecord
<1>6. request' = [request EXCEPT ![r] = x]
  BY DEF CountAgain
<1> HIDE DEF x
<1> QED
  BY <1>3, <1>4, <1>5, <1>6, RequestMoves, Zenon DEF Moves, Flags

LEMMA ShutPoppedMoves ==
  ASSUME TypeOK, NEW r \in Requests, NEW c \in Clients, NEW w \in BOOLEAN,
         request' = [request EXCEPT ![r] =
            [@ EXCEPT !.wait = request[r].wait \ {c}, !.failed = w]]
  PROVE  Moves(r, request[r].pc, request[r].desired, request[r].change,
               request[r].todo, request[r].wait \ {c}, request[r].cur) /\ Flags(r, request[r].nulls, w)
<1> DEFINE y == request[r]
           x == [y EXCEPT !.wait = y.wait \ {c}, !.failed = w]
<1>1. y \in RequestRecord
  BY DEF TypeOK
<1>2. x \in RequestRecord
  BY <1>1 DEF RequestRecord
<1>3. /\ x.pc = y.pc /\ x.desired = y.desired /\ x.change = y.change
      /\ x.todo = y.todo /\ x.wait = y.wait \ {c} /\ x.cur = y.cur
  BY <1>1 DEF RequestRecord
<1>4. x.nulls = y.nulls /\ x.failed = w
  BY <1>1 DEF RequestRecord
<1>5. request' = [request EXCEPT ![r] = x]
  OBVIOUS
<1> HIDE DEF x
<1> QED
  BY <1>2, <1>3, <1>4, <1>5, RequestMoves, Zenon DEF Moves, Flags

LEMMA MeetNullMoves ==
  ASSUME TypeOK, NEW r \in Requests, MeetNull(r)
  PROVE  Moves(r, request[r].pc, request[r].desired, request[r].change,
               {}, request[r].wait, request[r].cur) /\ Flags(r, FALSE, TRUE)
<1> DEFINE y == request[r]
           x == [y EXCEPT !.nulls = FALSE, !.todo = {}, !.failed = TRUE]
<1>1. y \in RequestRecord
  BY DEF TypeOK
<1>2. x \in RequestRecord
  BY <1>1 DEF RequestRecord
<1>3. /\ x.pc = y.pc /\ x.desired = y.desired /\ x.change = y.change
      /\ x.todo = {} /\ x.wait = y.wait /\ x.cur = y.cur
  BY <1>1 DEF RequestRecord
<1>4. x.nulls = FALSE /\ x.failed = TRUE
  BY <1>1 DEF RequestRecord
<1>5. request' = [request EXCEPT ![r] = x]
  BY DEF MeetNull
<1> HIDE DEF x
<1> QED
  BY <1>2, <1>3, <1>4, <1>5, RequestMoves, Zenon DEF Moves, Flags

LEMMA PushMoves ==
  ASSUME TypeOK, NEW r \in Requests, NEW c \in Clients, Push(r, c)
  PROVE  Moves(r, "pushed", request[r].desired, request[r].change,
               request[r].todo \ {c}, request[r].wait, c) /\ Flags(r, request[r].nulls, request[r].failed)
<1> DEFINE y == request[r]
           x == [y EXCEPT !.pc = "pushed", !.cur = c, !.todo = y.todo \ {c}]
<1>1. y \in RequestRecord
  BY DEF TypeOK
<1>2. x \in RequestRecord
  BY <1>1 DEF RequestRecord
<1>3. /\ x.pc = "pushed" /\ x.desired = y.desired /\ x.change = y.change
      /\ x.todo = y.todo \ {c} /\ x.wait = y.wait /\ x.cur = c
  BY <1>1 DEF RequestRecord
<1>4. x.nulls = y.nulls /\ x.failed = y.failed
  BY <1>1 DEF RequestRecord
<1>5. request' = [request EXCEPT ![r] = x]
  BY DEF Push
<1> HIDE DEF x
<1> QED
  BY <1>2, <1>3, <1>4, <1>5, RequestMoves, Zenon DEF Moves, Flags

LEMMA NewPcMoves ==
  ASSUME TypeOK, NEW r \in Requests, NEW v \in RequestPc,
         request' = [request EXCEPT ![r].pc = v]
  PROVE  Moves(r, v, request[r].desired, request[r].change,
               request[r].todo, request[r].wait, request[r].cur) /\ Flags(r, request[r].nulls, request[r].failed)
<1> DEFINE y == request[r]
           x == [y EXCEPT !.pc = v]
<1>1. y \in RequestRecord
  BY DEF TypeOK
<1>2. x \in RequestRecord
  BY <1>1 DEF RequestRecord, RequestPc
<1>3. /\ x.pc = v /\ x.desired = y.desired /\ x.change = y.change
      /\ x.todo = y.todo /\ x.wait = y.wait /\ x.cur = y.cur
  BY <1>1 DEF RequestRecord, RequestPc
<1>4. x.nulls = y.nulls /\ x.failed = y.failed
  BY <1>1 DEF RequestRecord, RequestPc
<1>5. request' = [request EXCEPT ![r] = x]
  OBVIOUS
<1> HIDE DEF x
<1> QED
  BY <1>2, <1>3, <1>4, <1>5, RequestMoves, Zenon DEF Moves, Flags

LEMMA LaunchMineMoves ==
  ASSUME TypeOK, NEW r \in Requests, NEW w \in BOOLEAN,
         request' = [request EXCEPT ![r] = [@ EXCEPT !.pc = "add", !.failed = w]]
  PROVE  Moves(r, "add", request[r].desired, request[r].change,
               request[r].todo, request[r].wait, request[r].cur) /\ Flags(r, request[r].nulls, w)
<1> DEFINE y == request[r]
           x == [y EXCEPT !.pc = "add", !.failed = w]
<1>1. y \in RequestRecord
  BY DEF TypeOK
<1>2. x \in RequestRecord
  BY <1>1 DEF RequestRecord
<1>3. /\ x.pc = "add" /\ x.desired = y.desired /\ x.change = y.change
      /\ x.todo = y.todo /\ x.wait = y.wait /\ x.cur = y.cur
  BY <1>1 DEF RequestRecord
<1>4. x.nulls = y.nulls /\ x.failed = w
  BY <1>1 DEF RequestRecord
<1>5. request' = [request EXCEPT ![r] = x]
  OBVIOUS
<1> HIDE DEF x
<1> QED
  BY <1>2, <1>3, <1>4, <1>5, RequestMoves, Zenon DEF Moves, Flags

LEMMA CreateMoves ==
  ASSUME TypeOK, NEW r \in Requests, NEW cs \in SUBSET Clients,
         request' = [request EXCEPT ![r] = [@ EXCEPT !.pc = "add", !.mine = cs, !.todo = cs]]
  PROVE  Moves(r, "add", request[r].desired, request[r].change,
               cs, request[r].wait, request[r].cur) /\ Flags(r, request[r].nulls, request[r].failed)
<1> DEFINE y == request[r]
           x == [y EXCEPT !.pc = "add", !.mine = cs, !.todo = cs]
<1>1. y \in RequestRecord
  BY DEF TypeOK
<1>2. x \in RequestRecord
  BY <1>1 DEF RequestRecord
<1>3. /\ x.pc = "add" /\ x.desired = y.desired /\ x.change = y.change
      /\ x.todo = cs /\ x.wait = y.wait /\ x.cur = y.cur
  BY <1>1 DEF RequestRecord
<1>4. x.nulls = y.nulls /\ x.failed = y.failed
  BY <1>1 DEF RequestRecord
<1>5. request' = [request EXCEPT ![r] = x]
  OBVIOUS
<1> HIDE DEF x
<1> QED
  BY <1>2, <1>3, <1>4, <1>5, RequestMoves, Zenon DEF Moves, Flags

LEMMA PopMoves ==
  ASSUME TypeOK, NEW r \in Requests, NEW ps \in SUBSET Clients, NEW u \in BOOLEAN,
         request' = [request EXCEPT ![r] = [@ EXCEPT !.pc = "close", !.todo = ps, !.nulls = u]]
  PROVE  Moves(r, "close", request[r].desired, request[r].change,
               ps, request[r].wait, request[r].cur) /\ Flags(r, u, request[r].failed)
<1> DEFINE y == request[r]
           x == [y EXCEPT !.pc = "close", !.todo = ps, !.nulls = u]
<1>1. y \in RequestRecord
  BY DEF TypeOK
<1>2. x \in RequestRecord
  BY <1>1 DEF RequestRecord
<1>3. /\ x.pc = "close" /\ x.desired = y.desired /\ x.change = y.change
      /\ x.todo = ps /\ x.wait = y.wait /\ x.cur = y.cur
  BY <1>1 DEF RequestRecord
<1>4. x.nulls = u /\ x.failed = y.failed
  BY <1>1 DEF RequestRecord
<1>5. request' = [request EXCEPT ![r] = x]
  OBVIOUS
<1> HIDE DEF x
<1> QED
  BY <1>2, <1>3, <1>4, <1>5, RequestMoves, Zenon DEF Moves, Flags

LEMMA SkipPoppedMoves ==
  ASSUME TypeOK, NEW r \in Requests, NEW c \in Clients, client[c] # "up", TestPopped(r, c)
  PROVE  Moves(r, request[r].pc, request[r].desired, request[r].change,
               request[r].todo \ {c}, request[r].wait, request[r].cur) /\ Flags(r, request[r].nulls, TRUE)
<1> DEFINE y == request[r]
           x == [y EXCEPT !.todo = y.todo \ {c}, !.failed = TRUE]
<1>1. y \in RequestRecord
  BY DEF TypeOK
<1>2. x \in RequestRecord
  BY <1>1 DEF RequestRecord
<1>3. /\ x.pc = y.pc /\ x.desired = y.desired /\ x.change = y.change
      /\ x.todo = y.todo \ {c} /\ x.wait = y.wait /\ x.cur = y.cur
  BY <1>1 DEF RequestRecord
<1>4. x.nulls = y.nulls /\ x.failed = TRUE
  BY <1>1 DEF RequestRecord
<1>5. request' = [request EXCEPT ![r] = x]
  BY DEF TestPopped, TestClient
<1> HIDE DEF x
<1> QED
  BY <1>2, <1>3, <1>4, <1>5, RequestMoves, Zenon DEF Moves, Flags

LEMMA WaitPoppedMoves ==
  ASSUME TypeOK, NEW r \in Requests, NEW c \in Clients, client[c] = "up", TestPopped(r, c)
  PROVE  /\ Moves(r, request[r].pc, request[r].desired, request[r].change,
                  request[r].todo \ {c}, request[r].wait \cup {c}, request[r].cur)
         /\ Flags(r, request[r].nulls, request[r].failed)
<1> DEFINE y == request[r]
           w == y.failed \/ client[c] # "up"
           z == [y EXCEPT !.todo = y.todo \ {c}, !.wait = y.wait \cup {c}]
           x == [z EXCEPT !.failed = w]
<1>1. y \in RequestRecord
  BY DEF TypeOK
<1>2. y.failed \in BOOLEAN /\ w \in BOOLEAN
  BY <1>1, RequestFields, Zenon
<1>3. w = y.failed
  BY <1>2
<1>4. request' = [request EXCEPT ![r] = x]
  BY DEF TestPopped, TestClient
<1> HIDE DEF w
<1>5. x \in RequestRecord
  BY <1>1, <1>2 DEF RequestRecord
<1>6. /\ x.pc = y.pc /\ x.desired = y.desired /\ x.change = y.change
      /\ x.todo = y.todo \ {c} /\ x.wait = y.wait \cup {c} /\ x.cur = y.cur
  BY <1>1 DEF RequestRecord
<1>7. x.nulls = y.nulls /\ x.failed = w
  BY <1>1, <1>2 DEF RequestRecord
<1> HIDE DEF x
<1> QED
  BY <1>3, <1>4, <1>5, <1>6, <1>7, RequestMoves, Zenon DEF Moves, Flags

(***************************************************************************)
(* Types.                                                                  *)
(***************************************************************************)

LEMMA Fields ==
  ASSUME TypeOK
  PROVE  /\ server \in ServerRecord /\ stack \in Seq(Clients) /\ IsInjective(stack)
         /\ client \in [Clients -> ClientState]
         /\ request \in [Requests -> RequestRecord]
         /\ worker \in TaskRecord /\ handler \in TaskRecord
         /\ Elements \subseteq Clients /\ Running \subseteq Clients /\ InHands \subseteq Clients
<1>1. InHands \subseteq Clients
  BY RequestFields DEF TypeOK, InHands
<1> QED
  BY <1>1 DEF TypeOK, Elements, Running, Range

LEMMA CountsAreNat ==
  ASSUME TypeOK
  PROVE  IsFiniteSet(Elements \cap Running) /\ HeadlessClientsConnected \in Nat
<1>1. Elements \cap Running \in SUBSET Clients
  BY Fields
<1>2. IsFiniteSet(Elements \cap Running)
  BY <1>1, Constants, FS_Subset
<1> QED
  BY <1>2, FS_CardinalityType DEF HeadlessClientsConnected

LEMMA StartsTyped ==
  ASSUME TypeOK, NEW pcs
  PROVE  AboutToStart(pcs) \subseteq Clients \cup {NoClient}
BY RequestFields DEF TypeOK, AboutToStart, TaskRecord

LEMMA LaunchType ==
  ASSUME TypeOK, NEW c \in Clients, Launch(c)
  PROVE  client' \in [Clients -> ClientState] /\ doubled' \subseteq Clients
BY Fields DEF TypeOK, Launch, ClientState

\* The clients, one by one.
LEMMA Members ==
  ASSUME NEW c
  PROVE  /\ c \in InHands <=>
              \E r \in Requests : /\ request[r].pc = "close"
                                  /\ c \in request[r].todo \/ c \in request[r].wait
         /\ c \in Unpushed <=> \E r \in Requests : Adding(r) /\ c \in request[r].todo
         /\ c \in Seen <=>
              \/ c \in Elements \/ c \in InHands
              \/ c \in worker.todo \/ c \in worker.wait \/ c = worker.cur
              \/ c \in handler.todo \/ c \in handler.wait
              \/ \E r \in Requests : Starting(r) /\ c = request[r].cur
         /\ c \in Running <=> c \in Clients /\ client[c] = "up"
<1>1. c \in InHands <=>
        \E r \in Requests : /\ request[r].pc = "close"
                            /\ c \in request[r].todo \/ c \in request[r].wait
  BY DEF InHands
<1>2. c \in Unpushed <=> \E r \in Requests : Adding(r) /\ c \in request[r].todo
  BY DEF Unpushed
<1>3. c \in Seen <=>
        \/ c \in Elements \/ c \in InHands
        \/ c \in worker.todo \/ c \in worker.wait \/ c = worker.cur
        \/ c \in handler.todo \/ c \in handler.wait
        \/ \E r \in Requests : Starting(r) /\ c = request[r].cur
  BY DEF Seen
<1> QED
  BY <1>1, <1>2, <1>3 DEF Running

\* And after a step.
LEMMA NextMembers ==
  ASSUME NEW c
  PROVE  /\ c \in InHands' <=>
              \E r \in Requests : /\ request'[r].pc = "close"
                                  /\ c \in request'[r].todo \/ c \in request'[r].wait
         /\ c \in Unpushed' <=> \E r \in Requests : Adding(r)' /\ c \in request'[r].todo
         /\ c \in Seen' <=>
              \/ c \in Elements' \/ c \in InHands'
              \/ c \in worker'.todo \/ c \in worker'.wait \/ c = worker'.cur
              \/ c \in handler'.todo \/ c \in handler'.wait
              \/ \E r \in Requests : Starting(r)' /\ c = request'[r].cur
         /\ c \in Running' <=> c \in Clients /\ client'[c] = "up"
<1>1. c \in InHands' <=>
        \E r \in Requests : /\ request'[r].pc = "close"
                            /\ c \in request'[r].todo \/ c \in request'[r].wait
  BY DEF InHands
<1>2. c \in Unpushed' <=> \E r \in Requests : Adding(r)' /\ c \in request'[r].todo
  BY DEF Unpushed
<1>3. c \in Seen' <=>
        \/ c \in Elements' \/ c \in InHands'
        \/ c \in worker'.todo \/ c \in worker'.wait \/ c = worker'.cur
        \/ c \in handler'.todo \/ c \in handler'.wait
        \/ \E r \in Requests : Starting(r)' /\ c = request'[r].cur
  BY DEF Seen
<1> QED
  BY <1>1, <1>2, <1>3 DEF Running

\* What about to start means.
About(c, pcs) == \/ \E r \in Requests : request[r].pc \in pcs /\ c = request[r].cur
                 \/ worker.pc \in {"starting", "launch"} /\ (c \in worker.todo \/ c = worker.cur)

LEMMA AboutMembers ==
  ASSUME NEW c, NEW pcs
  PROVE  c \in AboutToStart(pcs) <=> About(c, pcs)
<1>1. c \in {request[r].cur : r \in {q \in Requests : request[q].pc \in pcs}} <=>
        \E r \in Requests : request[r].pc \in pcs /\ c = request[r].cur
  OBVIOUS
<1>2. CASE worker.pc \in {"starting", "launch"}
  BY <1>1, <1>2, Zenon DEF AboutToStart, About
<1>3. CASE worker.pc \notin {"starting", "launch"}
  BY <1>1, <1>3, Zenon DEF AboutToStart, About
<1> QED
  BY <1>2, <1>3

LEMMA NextAboutMembers ==
  ASSUME NEW c, NEW pcs
  PROVE  c \in AboutToStart(pcs)' <=> About(c, pcs)'
<1>1. c \in {request'[r].cur : r \in {q \in Requests : request'[q].pc \in pcs}} <=>
        \E r \in Requests : request'[r].pc \in pcs /\ c = request'[r].cur
  OBVIOUS
<1>2. CASE worker'.pc \in {"starting", "launch"}
  BY <1>1, <1>2, Zenon DEF AboutToStart, About
<1>3. CASE worker'.pc \notin {"starting", "launch"}
  BY <1>1, <1>3, Zenon DEF AboutToStart, About
<1> QED
  BY <1>2, <1>3


LEMMA SeenTyped ==
  ASSUME TypeOK
  PROVE  Seen \subseteq Clients \cup {NoClient} /\ Unpushed \subseteq Clients
<1>1. \A c \in Unpushed : c \in Clients
  BY Members, Fields, RequestFields
<1>2. /\ worker.todo \subseteq Clients /\ worker.wait \subseteq Clients
      /\ worker.cur \in Clients \cup {NoClient}
      /\ handler.todo \subseteq Clients /\ handler.wait \subseteq Clients
  BY Fields DEF TaskRecord
<1>3. \A r \in Requests : request[r].cur \in Clients \cup {NoClient}
  BY Fields, RequestFields
<1>4. \A c \in Seen : c \in Clients \cup {NoClient}
  BY <1>2, <1>3, Members, Fields
<1> QED
  BY <1>1, <1>4
(***************************************************************************)
(* What each step of a request does.                                       *)
(***************************************************************************)

\* No flag is taken back.
FlagsKept(r) == /\ request[r].failed => request'[r].failed
                /\ request[r].nulls => request'[r].nulls

LEMMA FlagsAreKept ==
  ASSUME NEW r
  PROVE  /\ Flags(r, request[r].nulls, request[r].failed) => FlagsKept(r)
         /\ \A w : Flags(r, request[r].nulls, request[r].failed \/ w) => FlagsKept(r)
BY Zenon DEF Flags, FlagsKept

LEMMA SameStack == stack' = stack => Elements' = Elements
BY DEF Elements

LEMMA SameClients == client' = client => Running' = Running
BY DEF Running

LEMMA BeginEffect ==
  ASSUME TypeOK, NEW r \in Requests, NEW n \in Counts, Begin(r, n)
  PROVE  /\ request[r].pc = "idle" /\ n \in Nat
         /\ Moves(r, IF HeadlessClientsConnected > n THEN "count" ELSE "create", n,
                  n - HeadlessClientsConnected, {}, {}, NoClient)
         /\ alone' = r
         /\ UNCHANGED <<server, stack, client, doubled, worker, handler, raced, dropped,
                        Elements, Running>>
BY BeginMoves, CountsAreNat, SameStack, SameClients, Constants DEF Begin

LEMMA CountAgainEffect ==
  ASSUME TypeOK, NEW r \in Requests, CountAgain(r)
  PROVE  /\ request[r].pc = "count"
         /\ Moves(r, "remove", request[r].desired,
                  HeadlessClientsConnected - request[r].desired, request[r].todo,
                  request[r].wait, request[r].cur)
         /\ StepBy(r)
         /\ UNCHANGED <<server, stack, client, doubled, worker, handler, raced, dropped,
                        Elements, Running>>
BY CountAgainMoves, CountsAreNat, SameStack, SameClients DEF CountAgain

LEMMA RemoveEffect ==
  ASSUME TypeOK, NEW r \in Requests, Remove(r)
  PROVE  /\ request[r].pc = "remove"
         /\ \/ Moves(r, "done", 0, 0, {}, {}, NoClient)
            \/ /\ request[r].change > 0
               /\ Moves(r, "pop", request[r].desired, request[r].change, request[r].todo,
                        request[r].wait, request[r].cur)
         /\ StepBy(r)
         /\ UNCHANGED <<server, stack, client, doubled, worker, handler, raced, dropped,
                        Elements, Running>>
<1>1. CASE Finished(r)
  BY <1>1, FinishedMoves, SameStack, SameClients DEF Remove
<1>2. CASE ~(request[r].change <= 0) /\ request' = [request EXCEPT ![r].pc = "pop"]
  <2>1. request[r].change > 0
    BY <1>2, RequestFields DEF TypeOK
  <2> QED
    BY <1>2, <2>1, NewPcMoves, SameStack, SameClients DEF Remove, RequestPc
<1> QED
  BY <1>1, <1>2 DEF Remove

\* How many are popped: as many as counted, or all there are.
LEMMA PopEffect ==
  ASSUME TypeOK, NEW r \in Requests, Pop(r), request[r].change > 0
  PROVE  \E ps \in SUBSET Clients :
           /\ request[r].pc = "pop"
           /\ Moves(r, "close", request[r].desired, request[r].change, ps, request[r].wait,
                    request[r].cur)
           /\ ps \subseteq Elements /\ Elements' = Elements \ ps
           /\ IsFiniteSet(ps)
           /\ ~request'[r].nulls => Cardinality(ps) = request[r].change
           /\ raced' = raced \cup (ps \cap AboutToStart({"pushed", "start", "launch"}))
           /\ stack' \in Seq(Clients) /\ IsInjective(stack')
           /\ StepBy(r)
           /\ UNCHANGED <<server, client, doubled, worker, handler, dropped, Running>>
<1> DEFINE k == IF request[r].change < Len(stack) THEN request[r].change ELSE Len(stack)
           ps == {stack[i] : i \in 1 .. k}
           u == k < request[r].change
<1>1. /\ request[r].pc = "pop"
      /\ stack' = SubSeq(stack, k + 1, Len(stack))
      /\ raced' = raced \cup (ps \cap AboutToStart({"pushed", "start", "launch"}))
      /\ StepBy(r)
      /\ UNCHANGED <<server, client, doubled, worker, handler, dropped>>
  BY DEF Pop
<1>2. request' = [request EXCEPT ![r] = [@ EXCEPT !.pc = "close", !.todo = ps, !.nulls = u]]
  BY DEF Pop
<1>3. k \in 0 .. Len(stack) /\ (~u => k = request[r].change)
  <2>1. Len(stack) \in Nat /\ request[r].change \in Int
    BY Fields, RequestFields DEF TypeOK
  <2> QED
    BY <2>1
<1>4. u \in BOOLEAN
  OBVIOUS
<1> HIDE DEF k, u
<1>5. /\ stack' \in Seq(Clients) /\ IsInjective(stack')
      /\ ps \subseteq Elements /\ Elements' = Elements \ ps
      /\ IsFiniteSet(ps) /\ Cardinality(ps) = k
  BY <1>1, <1>3, PoppedStack, Fields DEF Elements
<1>6. ps \in SUBSET Clients
  BY <1>5, Fields
<1> HIDE DEF ps
<1>7. /\ Moves(r, "close", request[r].desired, request[r].change, ps, request[r].wait,
               request[r].cur)
      /\ Flags(r, u, request[r].failed)
  BY <1>2, <1>4, <1>6, PopMoves
<1>8. ~request'[r].nulls => ~u
  BY <1>7, Zenon DEF Flags
<1> WITNESS ps \in SUBSET Clients
<1> QED
  BY <1>1, <1>3, <1>5, <1>7, <1>8, SameClients

LEMMA TestPoppedEffect ==
  ASSUME TypeOK, NEW r \in Requests, NEW c \in Clients, TestPopped(r, c)
  PROVE  /\ request[r].pc = "close" /\ c \in request[r].todo
         /\ \/ /\ client[c] # "up" /\ request'[r].failed
               /\ Moves(r, request[r].pc, request[r].desired, request[r].change,
                        request[r].todo \ {c}, request[r].wait, request[r].cur)
            \/ /\ client[c] = "up" /\ FlagsKept(r)
               /\ Moves(r, request[r].pc, request[r].desired, request[r].change,
                        request[r].todo \ {c}, request[r].wait \cup {c}, request[r].cur)
         /\ StepBy(r)
         /\ UNCHANGED <<server, stack, client, doubled, worker, handler, raced, dropped,
                        Elements, Running>>
<1>1. ASSUME client[c] # "up"
      PROVE  /\ request'[r].failed
             /\ Moves(r, request[r].pc, request[r].desired, request[r].change,
                      request[r].todo \ {c}, request[r].wait, request[r].cur)
  BY <1>1, SkipPoppedMoves, Zenon DEF Flags
<1>2. ASSUME client[c] = "up"
      PROVE  /\ FlagsKept(r)
             /\ Moves(r, request[r].pc, request[r].desired, request[r].change,
                      request[r].todo \ {c}, request[r].wait \cup {c}, request[r].cur)
  BY <1>2, WaitPoppedMoves, FlagsAreKept, Zenon
<1> QED
  BY <1>1, <1>2, SameStack, SameClients DEF TestPopped

\* A client that has been shut down is down.
LEMMA ShutDownEffect ==
  ASSUME TypeOK, NEW c \in Clients, client' = [client EXCEPT ![c] = "null"]
  PROVE  /\ client' \in [Clients -> ClientState] /\ client'[c] = "null"
         /\ \A d \in Clients \ {c} : client'[d] = client[d]
         /\ Running' = Running \ {c}
BY Fields DEF Running, ClientState

LEMMA ShutPoppedEffect ==
  ASSUME TypeOK, NEW r \in Requests, NEW c \in Clients, ShutPopped(r, c)
  PROVE  /\ request[r].pc = "close" /\ c \in request[r].wait
         /\ Moves(r, request[r].pc, request[r].desired, request[r].change, request[r].todo,
                  request[r].wait \ {c}, request[r].cur)
         /\ FlagsKept(r)
         /\ client' = [client EXCEPT ![c] = "null"]
         /\ StepBy(r)
         /\ UNCHANGED <<server, stack, doubled, worker, handler, raced, dropped, Elements>>
<1>1. PICK threw \in BOOLEAN :
        /\ c \in request[r].wait /\ client' = [client EXCEPT ![c] = "null"]
        /\ request' = [request EXCEPT ![r] =
             [@ EXCEPT !.wait = request[r].wait \ {c}, !.failed = request[r].failed \/ threw]]
  BY DEF ShutPopped, ClientShutDown
<1> DEFINE w == request[r].failed \/ threw
<1>2. w \in BOOLEAN /\ (request[r].failed => w)
  OBVIOUS
<1>3. request' = [request EXCEPT ![r] =
        [@ EXCEPT !.wait = request[r].wait \ {c}, !.failed = w]]
  BY <1>1
<1> HIDE DEF w
<1>4. /\ Moves(r, request[r].pc, request[r].desired, request[r].change, request[r].todo,
               request[r].wait \ {c}, request[r].cur)
      /\ Flags(r, request[r].nulls, w)
  BY <1>2, <1>3, ShutPoppedMoves
<1>5. FlagsKept(r)
  BY <1>2, <1>4, Zenon DEF Flags, FlagsKept
<1> QED
  BY <1>1, <1>4, <1>5, SameStack DEF ShutPopped

LEMMA MeetNullEffect ==
  ASSUME TypeOK, NEW r \in Requests, MeetNull(r)
  PROVE  /\ request[r].pc = "close" /\ dropped' = dropped \cup request[r].todo
         /\ request'[r].failed
         /\ Moves(r, request[r].pc, request[r].desired, request[r].change, {},
                  request[r].wait, request[r].cur)
         /\ StepBy(r)
         /\ UNCHANGED <<server, stack, client, doubled, worker, handler, raced,
                        Elements, Running>>
<1>1. /\ request'[r].failed
      /\ Moves(r, request[r].pc, request[r].desired, request[r].change, {},
               request[r].wait, request[r].cur)
  BY MeetNullMoves, Zenon DEF Flags
<1> QED
  BY <1>1, SameStack, SameClients DEF MeetNull

LEMMA RemovedEffect ==
  ASSUME TypeOK, NEW r \in Requests, Removed(r)
  PROVE  /\ request[r].pc = "close" /\ request[r].todo = {} /\ request[r].wait = {}
         /\ Moves(r, "done", 0, 0, {}, {}, NoClient)
         /\ StepBy(r)
         /\ UNCHANGED <<server, stack, client, doubled, worker, handler, raced, dropped,
                        Elements, Running>>
BY FinishedMoves, SameStack, SameClients DEF Removed

LEMMA CreateEffect ==
  ASSUME TypeOK, NEW r \in Requests, Create(r)
  PROVE  /\ request[r].pc = "create" /\ StepBy(r)
         /\ UNCHANGED <<server, stack, doubled, worker, handler, raced, dropped, Elements,
                        Running>>
         /\ client' \in [Clients -> ClientState]
         /\ \/ client' = client /\ Moves(r, "done", 0, 0, {}, {}, NoClient)
            \/ \E cs \in SUBSET Clients :
                 /\ \A c \in cs : client[c] = "new"
                 /\ IsFiniteSet(cs) /\ Cardinality(cs) = request[r].change
                 /\ client' = [c \in Clients |-> IF c \in cs THEN "made" ELSE client[c]]
                 /\ Moves(r, "add", request[r].desired, request[r].change, cs,
                          request[r].wait, request[r].cur)
<1>1. CASE Finished(r) /\ client' = client
  BY <1>1, FinishedMoves, Fields, SameStack, SameClients DEF Create
<1>2. CASE \E cs \in SUBSET Fresh :
             /\ Cardinality(cs) = request[r].change
             /\ client' = [c \in Clients |-> IF c \in cs THEN "made" ELSE client[c]]
             /\ request' = [request EXCEPT ![r] =
                  [@ EXCEPT !.pc = "add", !.mine = cs, !.todo = cs]]
  <2>1. PICK cs \in SUBSET Fresh :
          /\ Cardinality(cs) = request[r].change
          /\ client' = [c \in Clients |-> IF c \in cs THEN "made" ELSE client[c]]
          /\ request' = [request EXCEPT ![r] =
               [@ EXCEPT !.pc = "add", !.mine = cs, !.todo = cs]]
    BY <1>2
  <2>2. cs \in SUBSET Clients /\ \A c \in cs : client[c] = "new"
    BY DEF Fresh
  <2>3. IsFiniteSet(cs)
    BY <2>2, Constants, FS_Subset
  <2>4. Moves(r, "add", request[r].desired, request[r].change, cs, request[r].wait,
              request[r].cur)
    BY <2>1, <2>2, CreateMoves
  <2>5. Running' = Running
    BY <2>1, <2>2 DEF Running
  <2>6. client' \in [Clients -> ClientState]
    BY <2>1, Fields DEF ClientState
  <2> QED
    BY <2>1, <2>2, <2>3, <2>4, <2>5, <2>6, SameStack DEF Create
<1> QED
  BY <1>1, <1>2 DEF Create

LEMMA PushEffect ==
  ASSUME TypeOK, NEW r \in Requests, NEW c \in Clients, Push(r, c), c \notin Elements
  PROVE  /\ request[r].pc = "add" /\ c \in request[r].todo
         /\ Moves(r, "pushed", request[r].desired, request[r].change, request[r].todo \ {c},
                  request[r].wait, c)
         /\ FlagsKept(r)
         /\ stack' \in Seq(Clients) /\ IsInjective(stack') /\ Elements' = Elements \cup {c}
         /\ StepBy(r)
         /\ UNCHANGED <<server, client, doubled, worker, handler, raced, dropped, Running>>
<1>1. /\ Moves(r, "pushed", request[r].desired, request[r].change, request[r].todo \ {c},
               request[r].wait, c)
      /\ FlagsKept(r)
  BY PushMoves, FlagsAreKept, Zenon
<1>2. stack' \in Seq(Clients) /\ IsInjective(stack') /\ Elements' = Elements \cup {c}
  BY PushedStack, Fields DEF Push, Elements
<1> QED
  BY <1>1, <1>2, SameClients DEF Push

LEMMA CheckServerEffect ==
  ASSUME TypeOK, NEW r \in Requests, CheckServer(r)
  PROVE  /\ request[r].pc = "pushed"
         /\ \E v \in {"add", "start"} :
              /\ v = IF server.proc = "up" THEN "start" ELSE "add"
              /\ Moves(r, v, request[r].desired, request[r].change, request[r].todo,
                       request[r].wait, request[r].cur)
         /\ FlagsKept(r) /\ StepBy(r)
         /\ UNCHANGED <<server, stack, client, doubled, worker, handler, raced, dropped,
                        Elements, Running>>
<1> DEFINE v == IF server.proc = "up" THEN "start" ELSE "add"
<1>1. v \in {"add", "start"} /\ v \in RequestPc
  BY DEF RequestPc
<1>2. request' = [request EXCEPT ![r].pc = v]
  BY DEF CheckServer, IsServerStopped
<1> HIDE DEF v
<1>3. FlagsKept(r) /\ Moves(r, v, request[r].desired, request[r].change, request[r].todo,
            request[r].wait, request[r].cur)
  BY <1>1, <1>2, NewPcMoves, FlagsAreKept, Zenon
<1> QED
  BY <1>1, <1>3, SameStack, SameClients DEF CheckServer, v

LEMMA TestMineEffect ==
  ASSUME TypeOK, NEW r \in Requests, TestMine(r)
  PROVE  /\ request[r].pc = "start"
         /\ \E v \in {"add", "launch"} :
              /\ v = IF client[request[r].cur] = "up" THEN "add" ELSE "launch"
              /\ Moves(r, v, request[r].desired, request[r].change, request[r].todo,
                       request[r].wait, request[r].cur)
         /\ FlagsKept(r) /\ StepBy(r)
         /\ UNCHANGED <<server, stack, client, doubled, worker, handler, raced, dropped,
                        Elements, Running>>
<1> DEFINE v == IF client[request[r].cur] = "up" THEN "add" ELSE "launch"
<1>1. v \in {"add", "launch"} /\ v \in RequestPc
  BY DEF RequestPc
<1>2. request' = [request EXCEPT ![r].pc = v]
  BY DEF TestMine
<1> HIDE DEF v
<1>3. FlagsKept(r) /\ Moves(r, v, request[r].desired, request[r].change, request[r].todo,
            request[r].wait, request[r].cur)
  BY <1>1, <1>2, NewPcMoves, FlagsAreKept, Zenon
<1> QED
  BY <1>1, <1>3, SameStack, SameClients DEF TestMine, v

\* A start either succeeds or changes nothing.
LEMMA LaunchEffect ==
  ASSUME TypeOK, NEW c \in Clients, Launch(c)
  PROVE  /\ client' \in [Clients -> ClientState] /\ doubled' \subseteq Clients
         /\ \A d \in Clients \ {c} : client'[d] = client[d]
         /\ client'[c] = "up" \/ client'[c] = client[c]
         /\ client'[c] = "up" => Running' = Running \cup {c}
         /\ client'[c] # "up" => Running' = Running
         /\ doubled' = doubled \/ (client[c] = "up" /\ client'[c] = "up")
<1>1. CASE client' = [client EXCEPT ![c] = "up"]
             /\ doubled' = doubled \cup (IF client[c] = "up" THEN {c} ELSE {})
  BY <1>1, Fields DEF Running, ClientState, TypeOK
<1>2. CASE UNCHANGED <<client, doubled>>
  BY <1>2, Fields DEF Running, TypeOK
<1> QED
  BY <1>1, <1>2 DEF Launch

LEMMA LaunchMineEffect ==
  ASSUME TypeOK, NEW r \in Requests, LaunchMine(r)
  PROVE  /\ request[r].pc = "launch" /\ Launch(request[r].cur)
         /\ Moves(r, "add", request[r].desired, request[r].change, request[r].todo,
                  request[r].wait, request[r].cur)
         /\ FlagsKept(r)
         /\ client'[request[r].cur] # "up" => request'[r].failed
         /\ StepBy(r)
         /\ UNCHANGED <<server, stack, worker, handler, raced, dropped, Elements>>
<1> DEFINE w == request[r].failed \/ client'[request[r].cur] # "up"
<1>1. w \in BOOLEAN
  OBVIOUS
<1>2. request' = [request EXCEPT ![r] = [@ EXCEPT !.pc = "add", !.failed = w]]
  BY DEF LaunchMine
<1> HIDE DEF w
<1>3. /\ Moves(r, "add", request[r].desired, request[r].change, request[r].todo,
               request[r].wait, request[r].cur)
      /\ Flags(r, request[r].nulls, w)
  BY <1>1, <1>2, LaunchMineMoves
<1>4. /\ FlagsKept(r)
      /\ client'[request[r].cur] # "up" => request'[r].failed
  BY <1>3, Zenon DEF Flags, FlagsKept, w
<1>5. /\ request[r].pc = "launch" /\ Launch(request[r].cur) /\ StepBy(r)
      /\ UNCHANGED <<server, stack, worker, handler, raced, dropped>>
  BY DEF LaunchMine
<1> QED
  BY <1>3, <1>4, <1>5, SameStack

LEMMA AddedEffect ==
  ASSUME TypeOK, NEW r \in Requests, Added(r)
  PROVE  /\ request[r].pc = "add" /\ request[r].todo = {}
         /\ Moves(r, "done", 0, 0, {}, {}, NoClient)
         /\ StepBy(r)
         /\ UNCHANGED <<server, stack, client, doubled, worker, handler, raced, dropped,
                        Elements, Running>>
BY FinishedMoves, SameStack, SameClients DEF Added

(***************************************************************************)
(* What the other threads do.                                              *)
(***************************************************************************)

\* The fields of a task and of the server that the invariant speaks of.
Task(x, pc, todo, wait, cur) ==
  x \in TaskRecord /\ x.pc = pc /\ x.todo = todo /\ x.wait = wait /\ x.cur = cur

NoTaskFields(x) == Task(x, "none", {}, {}, NoClient)

LEMMA NoTaskIs == NoTaskFields(NoTask)
BY Records DEF Task, NoTaskFields

\* Whether the server is watched and started, when that stays.
ServerKept == /\ server' \in ServerRecord
              /\ server'.watched <=> server.watched
              /\ server'.started <=> server.started

LEMMA ServerSame == TypeOK /\ server' = server => ServerKept /\ server'.proc = server.proc
BY DEF TypeOK, ServerKept

LEMMA StartServerEffect ==
  ASSUME TypeOK, StartServer
  PROVE  /\ worker.pc = "prepare" /\ ServerKept
         /\ \/ /\ server'.proc = "up"
               /\ Task(worker', "launched", worker.todo, worker.wait, worker.cur)
            \/ server'.proc = server.proc /\ NoTaskFields(worker')
         /\ UNCHANGED <<stack, client, doubled, request, handler, raced, dropped, Elements,
                        Running>>
<1>1. CASE /\ server' = [server EXCEPT !.proc = "up"]
           /\ worker' = [worker EXCEPT !.pc = "launched"]
  <2>1. ServerKept /\ server'.proc = "up"
    BY <1>1 DEF TypeOK, ServerRecord, ServerKept
  <2>2. Task(worker', "launched", worker.todo, worker.wait, worker.cur)
    BY <1>1 DEF TypeOK, Task, TaskRecord
  <2> QED
    BY <2>1, <2>2, SameStack, SameClients DEF StartServer
<1>2. CASE worker' = NoTask /\ server' = server
  BY <1>2, NoTaskIs, ServerSame, SameStack, SameClients DEF StartServer
<1> QED
  BY <1>1, <1>2 DEF StartServer

LEMMA SubscribeExitEffect ==
  ASSUME TypeOK, SubscribeExit
  PROVE  /\ worker.pc = "launched"
         /\ server' \in ServerRecord /\ server'.proc = server.proc /\ server'.started
         /\ server.proc = "up" => server'.watched
         /\ Task(worker', "starting", Elements, worker.wait, worker.cur)
         /\ raced' = raced \cup (IF IsServerStopped THEN Elements ELSE {})
         /\ UNCHANGED <<stack, client, doubled, request, handler, dropped, Elements, Running>>
<1>1. PICK raised \in BOOLEAN :
        server' = [server EXCEPT !.started = TRUE, !.watched = ~raised \/ ~IsServerStopped]
  BY DEF SubscribeExit
<1> DEFINE w == ~raised \/ ~IsServerStopped
<1>2. w \in BOOLEAN /\ (server.proc = "up" => w)
  BY DEF IsServerStopped
<1>3. server' = [server EXCEPT !.started = TRUE, !.watched = w]
  BY <1>1
<1> HIDE DEF w
<1>4. server' \in ServerRecord /\ server'.proc = server.proc
  BY <1>2, <1>3 DEF TypeOK, ServerRecord
<1>5. server'.started /\ server'.watched = w
  BY <1>2, <1>3 DEF TypeOK, ServerRecord
<1>6. server.proc = "up" => server'.watched
  BY <1>2, <1>5, Zenon
<1>7. Task(worker', "starting", Elements, worker.wait, worker.cur)
  BY Fields DEF SubscribeExit, TypeOK, Task, TaskRecord
<1> QED
  BY <1>4, <1>5, <1>6, <1>7, SameStack, SameClients DEF SubscribeExit

LEMMA TestClientOfServerEffect ==
  ASSUME TypeOK, NEW c \in Clients, TestClientOfServer(c)
  PROVE  /\ worker.pc = "starting" /\ c \in worker.todo
         /\ \E pc \in {"starting", "launch"} :
              Task(worker', pc, worker.todo \ {c}, worker.wait, c)
         /\ UNCHANGED <<server, stack, client, doubled, request, handler, raced, dropped,
                        Elements, Running>>
<1> DEFINE pc == IF client[c] = "up" THEN "starting" ELSE "launch"
<1>1. worker' = [worker EXCEPT !.todo = worker.todo \ {c}, !.cur = c, !.pc = pc]
  BY DEF TestClientOfServer
<1>2. pc \in {"starting", "launch"}
  OBVIOUS
<1> HIDE DEF pc
<1>3. Task(worker', pc, worker.todo \ {c}, worker.wait, c)
  BY <1>1, <1>2 DEF TypeOK, Task, TaskRecord
<1> QED
  BY <1>2, <1>3, SameStack, SameClients DEF TestClientOfServer

LEMMA LaunchClientOfServerEffect ==
  ASSUME TypeOK, LaunchClientOfServer
  PROVE  /\ worker.pc = "launch" /\ Launch(worker.cur)
         /\ Task(worker', "starting", worker.todo, worker.wait, worker.cur)
         /\ UNCHANGED <<server, stack, request, handler, raced, dropped, Elements>>
<1>1. Task(worker', "starting", worker.todo, worker.wait, worker.cur)
  BY DEF LaunchClientOfServer, TypeOK, Task, TaskRecord
<1> QED
  BY <1>1, SameStack DEF LaunchClientOfServer

LEMMA StartDoneEffect ==
  ASSUME TypeOK, StartDone
  PROVE  /\ worker.pc = "starting" /\ NoTaskFields(worker')
         /\ UNCHANGED <<server, stack, client, doubled, request, handler, raced, dropped,
                        Elements, Running>>
BY NoTaskIs, SameStack, SameClients DEF StartDone

LEMMA BeginShutdownEffect ==
  ASSUME TypeOK, BeginShutdown
  PROVE  /\ worker.pc = "none"
         /\ \/ server.proc # "up" /\ Task(worker', "snapshot", {}, {}, NoClient)
            \/ server.proc = "up" /\ Task(worker', "process", {}, {}, NoClient)
         /\ UNCHANGED <<server, stack, client, doubled, request, handler, raced, dropped,
                        Elements, Running>>
<1>1. ASSUME NEW pc \in {"snapshot", "process"}, worker' = [NoTask EXCEPT !.pc = pc]
      PROVE  Task(worker', pc, {}, {}, NoClient)
  BY <1>1 DEF Task, TaskRecord, NoTask
<1>2. CASE server.proc = "up"
  <2>1. worker' = [NoTask EXCEPT !.pc = "process"]
    BY <1>2 DEF BeginShutdown, IsServerStopped
  <2> QED
    BY <1>1, <1>2, <2>1, SameStack, SameClients DEF BeginShutdown
<1>3. CASE server.proc # "up"
  <2>1. worker' = [NoTask EXCEPT !.pc = "snapshot"]
    BY <1>3 DEF BeginShutdown, IsServerStopped
  <2> QED
    BY <1>1, <1>3, <2>1, SameStack, SameClients DEF BeginShutdown
<1> QED
  BY <1>2, <1>3

LEMMA ProcessEndsEffect ==
  ASSUME TypeOK, ProcessEnds
  PROVE  /\ server'.proc = "down" /\ ServerKept
         /\ raced' = raced \cup (AboutToStart({"start", "launch"}) \ {NoClient})
         /\ raced' \subseteq Clients
<1>1. server'.proc = "down" /\ ServerKept
  BY DEF ProcessEnds, TypeOK, ServerKept, ServerRecord
<1> QED
  BY <1>1, StartsTyped DEF ProcessEnds, TypeOK

LEMMA ShutProcessEffect ==
  ASSUME TypeOK, ShutProcess
  PROVE  /\ worker.pc = "process"
         /\ Task(worker', "snapshot", worker.todo, worker.wait, worker.cur)
         /\ \/ server.proc # "up" /\ UNCHANGED <<server, raced>>
            \/ server.proc = "up" /\ ProcessEnds
         /\ UNCHANGED <<stack, client, doubled, request, handler, dropped, Elements, Running>>
<1>1. Task(worker', "snapshot", worker.todo, worker.wait, worker.cur)
  BY DEF ShutProcess, TypeOK, Task, TaskRecord
<1> QED
  BY <1>1, SameStack, SameClients DEF ShutProcess, IsServerStopped

LEMMA RaiseExitedEffect ==
  ASSUME TypeOK, RaiseExited
  PROVE  /\ server.proc = "down" /\ server.watched /\ handler.pc = "none"
         /\ server' \in ServerRecord /\ server'.proc = "down" /\ ~server'.watched
         /\ server'.started <=> server.started
         /\ Task(handler', "discover", {}, {}, NoClient)
         /\ UNCHANGED <<stack, client, doubled, request, worker, raced, dropped, Elements,
                        Running>>
<1>1. Task(handler', "discover", {}, {}, NoClient)
  BY DEF RaiseExited, NoTask, Task, TaskRecord
<1>2. server' \in ServerRecord /\ server'.proc = "down"
  BY DEF RaiseExited, TypeOK, ServerRecord
<1>3. ~server'.watched /\ (server'.started <=> server.started)
  BY DEF RaiseExited, TypeOK, ServerRecord
<1> QED
  BY <1>1, <1>2, <1>3, SameStack, SameClients DEF RaiseExited

LEMMA CheckServerIsRestartingEffect ==
  ASSUME TypeOK, CheckServerIsRestarting
  PROVE  /\ handler.pc = "discover" /\ server' \in ServerRecord
         /\ server'.started <=> server.started
         /\ \/ /\ server'.proc = "up" /\ server'.watched /\ NoTaskFields(handler')
            \/ /\ server' = server
               /\ Task(handler', "snapshot", handler.todo, handler.wait, handler.cur)
         /\ UNCHANGED <<stack, client, doubled, request, worker, raced, dropped, Elements,
                        Running>>
<1>1. CASE server' = [server EXCEPT !.proc = "up", !.watched = TRUE] /\ handler' = NoTask
  <2>1. server' \in ServerRecord /\ server'.proc = "up"
    BY <1>1 DEF TypeOK, ServerRecord
  <2>2. server'.watched /\ (server'.started <=> server.started)
    BY <1>1 DEF TypeOK, ServerRecord
  <2> QED
    BY <1>1, <2>1, <2>2, NoTaskIs, SameStack, SameClients DEF CheckServerIsRestarting
<1>2. CASE handler' = [handler EXCEPT !.pc = "snapshot"] /\ server' = server
  <2>1. Task(handler', "snapshot", handler.todo, handler.wait, handler.cur)
    BY <1>2 DEF TypeOK, Task, TaskRecord
  <2> QED
    BY <1>2, <2>1, SameStack, SameClients DEF CheckServerIsRestarting, TypeOK
<1> QED
  BY <1>1, <1>2 DEF CheckServerIsRestarting

\* A step of ShutdownHeadlessClients, of the worker or of the handler.
LEMMA ClosingEffect ==
  ASSUME TypeOK, NEW task \in TaskRecord, NEW newTask, Closing(task, newTask)
  PROVE  /\ ServerKept /\ server'.proc = server.proc
         /\ \/ /\ task.pc = "snapshot" /\ client' = client
               /\ Task(newTask, "clients", Elements, task.wait, task.cur)
            \/ /\ task.pc = "clients" /\ client' = client
               /\ \E c \in task.todo :
                    \/ /\ client[c] = "up"
                       /\ Task(newTask, "clients", task.todo \ {c}, task.wait \cup {c}, task.cur)
                    \/ /\ client[c] # "up"
                       /\ Task(newTask, "clients", task.todo \ {c}, task.wait, task.cur)
            \/ /\ task.pc = "clients"
               /\ \E c \in task.wait :
                    /\ client' = [client EXCEPT ![c] = "null"]
                    /\ Task(newTask, "clients", task.todo, task.wait \ {c}, task.cur)
            \/ /\ task.pc = "clients" /\ task.todo = {} /\ task.wait = {}
               /\ client' = client /\ NoTaskFields(newTask)
<1>1. CASE task.pc = "snapshot" /\ newTask = Enumerated(task) /\ UNCHANGED <<server, client>>
  <2>1. Task(newTask, "clients", Elements, task.wait, task.cur)
    BY <1>1, Fields DEF Enumerated, Task, TaskRecord
  <2> QED
    BY <1>1, <2>1, ServerSame
<1>2. ASSUME NEW c \in task.todo, task.pc = "clients", newTask = TestClient(task, c),
             UNCHANGED <<server, client>>
      PROVE  \/ /\ client[c] = "up"
                /\ Task(newTask, "clients", task.todo \ {c}, task.wait \cup {c}, task.cur)
             \/ /\ client[c] # "up"
                /\ Task(newTask, "clients", task.todo \ {c}, task.wait, task.cur)
  <2>1. CASE client[c] = "up"
    BY <1>2, <2>1 DEF TestClient, Task, TaskRecord
  <2>2. CASE client[c] # "up"
    BY <1>2, <2>2 DEF TestClient, Task, TaskRecord
  <2> QED
    BY <2>1, <2>2
<1>3. ASSUME NEW c \in Clients, NEW threw \in BOOLEAN, task.pc = "clients",
             newTask = [task EXCEPT !.wait = task.wait \ {c}, !.threw = task.threw \/ threw]
      PROVE  Task(newTask, "clients", task.todo, task.wait \ {c}, task.cur)
  <2> DEFINE w == task.threw \/ threw
  <2>1. w \in BOOLEAN
    OBVIOUS
  <2>2. newTask = [task EXCEPT !.wait = task.wait \ {c}, !.threw = w]
    BY <1>3
  <2> HIDE DEF w
  <2> QED
    BY <1>3, <2>1, <2>2 DEF Task, TaskRecord
<1>4. CASE /\ task.pc = "clients" /\ task.todo = {} /\ task.wait = {}
           /\ server' = [server EXCEPT !.registered = server.registered /\ task.threw]
           /\ newTask = NoTask /\ client' = client
  <2> DEFINE w == server.registered /\ task.threw
  <2>1. w \in BOOLEAN
    OBVIOUS
  <2>2. server' = [server EXCEPT !.registered = w]
    BY <1>4
  <2> HIDE DEF w
  <2>3. ServerKept /\ server'.proc = server.proc
    BY <2>1, <2>2 DEF TypeOK, ServerKept, ServerRecord
  <2> QED
    BY <1>4, <2>3, NoTaskIs
<1>5. CASE \E c \in task.todo :
             task.pc = "clients" /\ newTask = TestClient(task, c) /\ UNCHANGED <<server, client>>
  BY <1>2, <1>5, ServerSame
<1>6. CASE \E c \in Clients, threw \in BOOLEAN :
             /\ task.pc = "clients" /\ ClientShutDown(task, c, threw)
             /\ newTask = [task EXCEPT !.wait = task.wait \ {c}, !.threw = task.threw \/ threw]
             /\ server' = server
  BY <1>3, <1>6, ServerSame DEF ClientShutDown
<1> QED
  BY <1>1, <1>4, <1>5, <1>6 DEF Closing


LEMMA ServerExitsEffect ==
  ASSUME TypeOK, ServerExits
  PROVE  /\ server.proc = "up" /\ ProcessEnds
         /\ UNCHANGED <<stack, client, doubled, request, worker, handler, dropped, Elements,
                        Running>>
BY SameStack, SameClients DEF ServerExits

LEMMA ClientExitsEffect ==
  ASSUME TypeOK, NEW c \in Clients, ClientExits(c)
  PROVE  /\ client[c] = "up" /\ client' \in [Clients -> ClientState] /\ client'[c] = "exited"
         /\ \A d \in Clients \ {c} : client'[d] = client[d]
         /\ Running' = Running \ {c}
         /\ UNCHANGED <<server, stack, doubled, request, worker, handler, raced, dropped,
                        Elements>>
BY Fields, SameStack DEF ClientExits, Running, ClientState

(***************************************************************************)
(* The inductive invariant.                                                *)
(***************************************************************************)

LEMMA Parts ==
  ASSUME HeadlessInv
  PROVE  /\ TypeOK /\ UnpushedUnseen /\ SeenAreMade /\ OwnClients /\ RequestPhases
         /\ PoppedForGood /\ StartsAreSeen /\ ServerPhases /\ RunningClientsOwned
         /\ LostOutlive /\ AloneCounts /\ StartedOnce
         /\ server \in ServerRecord /\ client \in [Clients -> ClientState]
         /\ request \in [Requests -> RequestRecord]
         /\ worker \in TaskRecord /\ handler \in TaskRecord
BY Fields DEF HeadlessInv, PushedOnce

LEMMA SameCount ==
  UNCHANGED <<Elements, Running>> => HeadlessClientsConnected' = HeadlessClientsConnected
BY DEF HeadlessClientsConnected

\* What an undisturbed request has still to do depends on its own steps alone.
LEMMA AloneStep ==
  ASSUME AloneCounts, NEW r \in Requests, StepBy(r), StillToDo(r) => StillToDo(r)'
  PROVE  AloneCounts'
BY Constants DEF AloneCounts, StepBy

LEMMA BeginKeeps ==
  ASSUME HeadlessInv, NEW r \in Requests, NEW n \in Counts, Begin(r, n)
  PROVE  HeadlessInv'
<1>1. /\ request[r].pc = "idle" /\ n \in Nat
      /\ Moves(r, IF HeadlessClientsConnected > n THEN "count" ELSE "create", n,
               n - HeadlessClientsConnected, {}, {}, NoClient)
      /\ alone' = r
      /\ UNCHANGED <<server, stack, client, doubled, worker, handler, raced, dropped,
                     Elements, Running>>
  BY Parts, BeginEffect
<1>2. TypeOK'
  BY Parts, <1>1, StartsTyped, Constants DEF TypeOK, StepBy, Moves
<1>3. UnpushedUnseen'
  BY Parts, <1>1, Members, NextMembers, SeenTyped, Constants DEF UnpushedUnseen, OwnClients,
     RequestPhases, Adding, Starting, Moves
<1>4. SeenAreMade'
  BY Parts, <1>1, Members, NextMembers, SeenTyped, Constants DEF SeenAreMade,
     UnpushedUnseen, RequestPhases, Adding, Starting, Moves
<1>5. OwnClients'
  BY Parts, <1>1, Members, Constants DEF OwnClients, UnpushedUnseen, Adding, Starting, Moves
<1>6. RequestPhases'
  BY Parts, <1>1, RequestFields, Constants DEF RequestPhases, Adding, Starting, Moves
<1>7. PoppedForGood'
  BY Parts, <1>1, Members, NextMembers, Constants DEF PoppedForGood, UnpushedUnseen,
     RequestPhases, Adding, Moves
<1>8. StartsAreSeen'
  BY Parts, <1>1, AboutMembers, NextAboutMembers, Constants DEF StartsAreSeen, About,
     ServerPhases, Moves
<1>9. ServerPhases'
  BY Parts, <1>1, Constants DEF ServerPhases, Moves
<1>10. RunningClientsOwned'
  BY Parts, <1>1, Members, NextMembers, AboutMembers, Constants DEF RunningClientsOwned,
     StartsAreSeen, About, Moves
<1>11. LostOutlive'
  BY Parts, <1>1, Members, NextMembers, AboutMembers, Constants DEF LostOutlive,
     StartsAreSeen, RunningClientsOwned, ServerPhases, About, Moves
<1>12. AloneCounts'
  <2>1. StillToDo(r)'
    BY <1>1, Parts, SameCount, CountsAreNat DEF StillToDo, Starting, Moves
  <2> QED
    BY <1>1, <2>1, Constants DEF AloneCounts
<1>13. StartedOnce'
  BY Parts, <1>1, Constants DEF StartedOnce, Starting, ServerPhases, RequestPhases, Moves
<1> QED
  BY <1>2, <1>3, <1>4, <1>5, <1>6, <1>7, <1>8, <1>9, <1>10, <1>11, <1>12, <1>13 DEF
     HeadlessInv, PushedOnce

LEMMA CountAgainKeeps ==
  ASSUME HeadlessInv, NEW r \in Requests, CountAgain(r)
  PROVE  HeadlessInv'
<1>1. /\ request[r].pc = "count"
      /\ Moves(r, "remove", request[r].desired,
               HeadlessClientsConnected - request[r].desired, request[r].todo,
               request[r].wait, request[r].cur)
      /\ StepBy(r)
      /\ UNCHANGED <<server, stack, client, doubled, worker, handler, raced, dropped,
                     Elements, Running>>
  BY Parts, CountAgainEffect
<1>2. TypeOK'
  BY Parts, <1>1, StartsTyped, Constants DEF TypeOK, StepBy, Moves
<1>3. UnpushedUnseen'
  BY Parts, <1>1, Members, NextMembers, SeenTyped, Constants DEF UnpushedUnseen, OwnClients,
     RequestPhases, Adding, Starting, Moves
<1>4. SeenAreMade'
  BY Parts, <1>1, Members, NextMembers, SeenTyped, Constants DEF SeenAreMade,
     UnpushedUnseen, RequestPhases, Adding, Starting, Moves
<1>5. OwnClients'
  BY Parts, <1>1, Members, Constants DEF OwnClients, UnpushedUnseen, Adding, Starting, Moves
<1>6. RequestPhases'
  BY Parts, <1>1, RequestFields, Constants DEF RequestPhases, Adding, Starting, Moves
<1>7. PoppedForGood'
  BY Parts, <1>1, Members, NextMembers, Constants DEF PoppedForGood, UnpushedUnseen,
     RequestPhases, Adding, Moves
<1>8. StartsAreSeen'
  BY Parts, <1>1, AboutMembers, NextAboutMembers, Constants DEF StartsAreSeen, About,
     ServerPhases, Moves
<1>9. ServerPhases'
  BY Parts, <1>1, Constants DEF ServerPhases, Moves
<1>10. RunningClientsOwned'
  BY Parts, <1>1, Members, NextMembers, AboutMembers, Constants DEF RunningClientsOwned,
     StartsAreSeen, About, Moves
<1>11. LostOutlive'
  BY Parts, <1>1, Members, NextMembers, AboutMembers, Constants DEF LostOutlive,
     StartsAreSeen, RunningClientsOwned, ServerPhases, About, Moves
<1>12. AloneCounts'
  <2>1. StillToDo(r) => StillToDo(r)'
    BY <1>1, Parts, SameCount, CountsAreNat, RequestFields DEF StillToDo, Starting, Moves, FlagsKept
  <2> QED
    BY <1>1, <2>1, Parts, AloneStep
<1>13. StartedOnce'
  BY Parts, <1>1, Constants DEF StartedOnce, Starting, ServerPhases, RequestPhases, Moves
<1> QED
  BY <1>2, <1>3, <1>4, <1>5, <1>6, <1>7, <1>8, <1>9, <1>10, <1>11, <1>12, <1>13 DEF
     HeadlessInv, PushedOnce

LEMMA RemoveKeeps ==
  ASSUME HeadlessInv, NEW r \in Requests, Remove(r)
  PROVE  HeadlessInv'
<1>1. /\ request[r].pc = "remove"
      /\ \/ Moves(r, "done", 0, 0, {}, {}, NoClient)
         \/ /\ request[r].change > 0
            /\ Moves(r, "pop", request[r].desired, request[r].change, request[r].todo,
                     request[r].wait, request[r].cur)
      /\ StepBy(r)
      /\ UNCHANGED <<server, stack, client, doubled, worker, handler, raced, dropped,
                     Elements, Running>>
  BY Parts, RemoveEffect
<1>2. TypeOK'
  BY Parts, <1>1, StartsTyped, Constants DEF TypeOK, StepBy, Moves
<1>3. UnpushedUnseen'
  BY Parts, <1>1, Members, NextMembers, SeenTyped, Constants DEF UnpushedUnseen, OwnClients,
     RequestPhases, Adding, Starting, Moves
<1>4. SeenAreMade'
  BY Parts, <1>1, Members, NextMembers, SeenTyped, Constants DEF SeenAreMade,
     UnpushedUnseen, RequestPhases, Adding, Starting, Moves
<1>5. OwnClients'
  BY Parts, <1>1, Members, Constants DEF OwnClients, UnpushedUnseen, Adding, Starting, Moves
<1>6. RequestPhases'
  BY Parts, <1>1, RequestFields, Constants DEF RequestPhases, Adding, Starting, Moves
<1>7. PoppedForGood'
  BY Parts, <1>1, Members, NextMembers, Constants DEF PoppedForGood, UnpushedUnseen,
     RequestPhases, Adding, Moves
<1>8. StartsAreSeen'
  BY Parts, <1>1, AboutMembers, NextAboutMembers, Constants DEF StartsAreSeen, About,
     ServerPhases, Moves
<1>9. ServerPhases'
  BY Parts, <1>1, Constants DEF ServerPhases, Moves
<1>10. RunningClientsOwned'
  BY Parts, <1>1, Members, NextMembers, AboutMembers, Constants DEF RunningClientsOwned,
     StartsAreSeen, About, Moves
<1>11. LostOutlive'
  BY Parts, <1>1, Members, NextMembers, AboutMembers, Constants DEF LostOutlive,
     StartsAreSeen, RunningClientsOwned, ServerPhases, About, Moves
<1>12. AloneCounts'
  <2>1. StillToDo(r) => StillToDo(r)'
    BY <1>1, Parts, SameCount, CountsAreNat, RequestFields DEF StillToDo, Starting, Moves, FlagsKept
  <2> QED
    BY <1>1, <2>1, Parts, AloneStep
<1>13. StartedOnce'
  BY Parts, <1>1, Constants DEF StartedOnce, Starting, ServerPhases, RequestPhases, Moves
<1> QED
  BY <1>2, <1>3, <1>4, <1>5, <1>6, <1>7, <1>8, <1>9, <1>10, <1>11, <1>12, <1>13 DEF
     HeadlessInv, PushedOnce

LEMMA PopKeeps ==
  ASSUME HeadlessInv, NEW r \in Requests, Pop(r)
  PROVE  HeadlessInv'
<1>1. request[r].pc = "pop" /\ request[r].change > 0
  BY Parts DEF Pop, RequestPhases
<1>2. \E ps \in SUBSET Clients :
        /\ request[r].pc = "pop"
        /\ Moves(r, "close", request[r].desired, request[r].change, ps, request[r].wait,
                 request[r].cur)
        /\ ps \subseteq Elements /\ Elements' = Elements \ ps
        /\ IsFiniteSet(ps)
        /\ ~request'[r].nulls => Cardinality(ps) = request[r].change
        /\ raced' = raced \cup (ps \cap AboutToStart({"pushed", "start", "launch"}))
        /\ stack' \in Seq(Clients) /\ IsInjective(stack')
        /\ StepBy(r)
        /\ UNCHANGED <<server, client, doubled, worker, handler, dropped, Running>>
  BY <1>1, Parts, PopEffect
<1>3. TypeOK'
  BY Parts, <1>2, StartsTyped, Constants DEF TypeOK, StepBy, Moves
<1>4. UnpushedUnseen'
  BY Parts, <1>2, Members, NextMembers, SeenTyped, Constants DEF UnpushedUnseen, OwnClients,
     RequestPhases, Adding, Starting, Moves
<1>5. SeenAreMade'
  BY Parts, <1>2, Members, NextMembers, SeenTyped, Constants DEF SeenAreMade,
     UnpushedUnseen, RequestPhases, Adding, Starting, Moves
<1>6. OwnClients'
  BY Parts, <1>2, Members, Constants DEF OwnClients, UnpushedUnseen, Adding, Starting, Moves
<1>7. RequestPhases'
  BY Parts, <1>2, RequestFields, Constants DEF RequestPhases, Adding, Starting, Moves
<1>8. PoppedForGood'
  BY Parts, <1>2, Members, NextMembers, Constants DEF PoppedForGood, UnpushedUnseen,
     RequestPhases, Adding, Moves
<1>9. StartsAreSeen'
  BY Parts, <1>2, AboutMembers, NextAboutMembers, Constants DEF StartsAreSeen, About,
     ServerPhases, Moves
<1>10. ServerPhases'
  BY Parts, <1>2, Constants DEF ServerPhases, Moves
<1>11. RunningClientsOwned'
  BY Parts, <1>2, Members, NextMembers, AboutMembers, Constants DEF RunningClientsOwned,
     StartsAreSeen, About, Moves
<1>12. LostOutlive'
  BY Parts, <1>2, Members, NextMembers, AboutMembers, Constants DEF LostOutlive,
     StartsAreSeen, RunningClientsOwned, ServerPhases, About, Moves
<1>13. AloneCounts'
  <2> DEFINE H == HeadlessClientsConnected
             E == Elements
             R == Running
  <2>1. PICK ps \in SUBSET Clients :
          /\ Moves(r, "close", request[r].desired, request[r].change, ps, request[r].wait,
                   request[r].cur)
          /\ E' = E \ ps /\ IsFiniteSet(ps) /\ R' = R /\ ps \subseteq E
          /\ ~request'[r].nulls => Cardinality(ps) = request[r].change
    BY <1>2, Zenon
  <2>2. IsFiniteSet(E \cap R) /\ H = Cardinality(E \cap R) /\ H' = Cardinality((E \cap R) \ ps)
    <3>1. E' \cap R' = (E \cap R) \ ps
      BY <2>1
    <3> QED
      BY <3>1, Parts, CountsAreNat DEF HeadlessClientsConnected
  <2>3. /\ IsFiniteSet(ps \cap R) /\ Cardinality(ps \cap R) \in Nat
        /\ Cardinality(ps \ R) = Cardinality(ps) - Cardinality(ps \cap R)
        /\ Cardinality(ps) \in Nat
    BY <2>1, FS_Difference, FS_Subset, FS_CardinalityType
  <2>4. Cardinality((E \cap R) \ ps) = Cardinality(E \cap R) - Cardinality(ps \cap R)
    <3>1. (E \cap R) \cap ps = ps \cap R
      BY <2>1
    <3> DEFINE S == E \cap R
    <3>2. IsFiniteSet(S) /\ S \cap ps = ps \cap R
      BY <2>2, <3>1
    <3> HIDE DEF S
    <3>3. Cardinality(S \ ps) = Cardinality(S) - Cardinality(S \cap ps)
      BY <3>2, FS_Difference
    <3> QED
      BY <3>2, <3>3 DEF S
  <2>5. H \in Nat /\ request[r].desired \in Nat /\ request[r].change \in Int
    BY Parts, CountsAreNat, RequestFields
  <2> HIDE DEF H, E, R
  <2>6. ASSUME StillToDo(r) PROVE StillToDo(r)'
    <3>1. request[r].change = H - request[r].desired
      BY <1>2, <2>6 DEF StillToDo, H
    <3>2. ~request'[r].nulls => H' = request[r].desired + Cardinality(ps \ R)
      BY <2>1, <2>2, <2>3, <2>4, <2>5, <3>1
    <3> QED
      BY <2>1, <3>2, Zenon DEF StillToDo, Starting, Moves, H, R
  <2> QED
    BY <1>2, <2>6, Parts, AloneStep
<1>14. StartedOnce'
  BY Parts, <1>2, Constants DEF StartedOnce, Starting, ServerPhases, RequestPhases, Moves
<1> QED
  BY <1>3, <1>4, <1>5, <1>6, <1>7, <1>8, <1>9, <1>10, <1>11, <1>12, <1>13, <1>14 DEF
     HeadlessInv, PushedOnce

LEMMA TestPoppedKeeps ==
  ASSUME HeadlessInv, NEW r \in Requests, NEW c \in Clients, TestPopped(r, c)
  PROVE  HeadlessInv'
<1>1. /\ request[r].pc = "close" /\ c \in request[r].todo
      /\ \/ /\ client[c] # "up" /\ request'[r].failed
            /\ Moves(r, request[r].pc, request[r].desired, request[r].change,
                     request[r].todo \ {c}, request[r].wait, request[r].cur)
         \/ /\ client[c] = "up" /\ FlagsKept(r)
            /\ Moves(r, request[r].pc, request[r].desired, request[r].change,
                     request[r].todo \ {c}, request[r].wait \cup {c}, request[r].cur)
      /\ StepBy(r)
      /\ UNCHANGED <<server, stack, client, doubled, worker, handler, raced, dropped,
                     Elements, Running>>
  BY Parts, TestPoppedEffect
<1>2. TypeOK'
  BY Parts, <1>1, StartsTyped, Constants DEF TypeOK, StepBy, Moves
<1>3. UnpushedUnseen'
  BY Parts, <1>1, Members, NextMembers, SeenTyped, Constants DEF UnpushedUnseen, OwnClients,
     RequestPhases, Adding, Starting, Moves
<1>4. SeenAreMade'
  BY Parts, <1>1, Members, NextMembers, SeenTyped, Constants DEF SeenAreMade,
     UnpushedUnseen, RequestPhases, Adding, Starting, Moves
<1>5. OwnClients'
  BY Parts, <1>1, Members, Constants DEF OwnClients, UnpushedUnseen, Adding, Starting, Moves
<1>6. RequestPhases'
  BY Parts, <1>1, RequestFields, Constants DEF RequestPhases, Adding, Starting, Moves
<1>7. PoppedForGood'
  BY Parts, <1>1, Members, NextMembers, Constants DEF PoppedForGood, UnpushedUnseen,
     RequestPhases, Adding, Moves
<1>8. StartsAreSeen'
  BY Parts, <1>1, AboutMembers, NextAboutMembers, Constants DEF StartsAreSeen, About,
     ServerPhases, Moves
<1>9. ServerPhases'
  BY Parts, <1>1, Constants DEF ServerPhases, Moves
<1>10. RunningClientsOwned'
  BY Parts, <1>1, Members, NextMembers, AboutMembers, Constants DEF RunningClientsOwned,
     StartsAreSeen, About, Moves
<1>11. LostOutlive'
  BY Parts, <1>1, Members, NextMembers, AboutMembers, Constants DEF LostOutlive,
     StartsAreSeen, RunningClientsOwned, ServerPhases, About, Moves
<1>12. AloneCounts'
  <2>1. StillToDo(r) => StillToDo(r)'
    <3>1. \/ request'[r].failed
          \/ FlagsKept(r) /\ request'[r].todo \ Running' = request[r].todo \ Running
      BY <1>1, Parts DEF Moves, Running
    <3> QED
      BY <1>1, <3>1, SameCount DEF StillToDo, Starting, Moves, FlagsKept
  <2> QED
    BY <1>1, <2>1, Parts, AloneStep
<1>13. StartedOnce'
  BY Parts, <1>1, Constants DEF StartedOnce, Starting, ServerPhases, RequestPhases, Moves
<1> QED
  BY <1>2, <1>3, <1>4, <1>5, <1>6, <1>7, <1>8, <1>9, <1>10, <1>11, <1>12, <1>13 DEF
     HeadlessInv, PushedOnce

LEMMA ShutPoppedKeeps ==
  ASSUME HeadlessInv, NEW r \in Requests, NEW c \in Clients, ShutPopped(r, c)
  PROVE  HeadlessInv'
<1>1. /\ request[r].pc = "close" /\ c \in request[r].wait
      /\ Moves(r, request[r].pc, request[r].desired, request[r].change, request[r].todo,
               request[r].wait \ {c}, request[r].cur)
      /\ FlagsKept(r)
      /\ client' = [client EXCEPT ![c] = "null"]
      /\ StepBy(r)
      /\ UNCHANGED <<server, stack, doubled, worker, handler, raced, dropped, Elements>>
  BY Parts, ShutPoppedEffect
<1>2. TypeOK'
  BY Parts, <1>1, ShutDownEffect, StartsTyped, Constants DEF TypeOK, StepBy, Moves
<1>3. UnpushedUnseen'
  <2>1. ASSUME NEW d \in Unpushed' PROVE d \in Unpushed
    BY <1>1, <2>1, Members, NextMembers DEF Adding, Starting, Moves
  <2>2. ASSUME NEW d \in Seen' PROVE d \in Seen
    BY <1>1, <2>2, Members, NextMembers DEF Starting, Moves
  <2>3. c \in Seen
    BY <1>1, Members
  <2> QED
    BY <1>1, <2>1, <2>2, <2>3, Parts, SeenTyped DEF UnpushedUnseen
<1>4. SeenAreMade'
  BY Parts, <1>1, ShutDownEffect, Members, NextMembers, SeenTyped, Constants DEF
     SeenAreMade, UnpushedUnseen, RequestPhases, Adding, Starting, Moves
<1>5. OwnClients'
  BY Parts, <1>1, ShutDownEffect, Members, Constants DEF OwnClients, UnpushedUnseen, Adding,
     Starting, Moves
<1>6. RequestPhases'
  BY Parts, <1>1, ShutDownEffect, RequestFields, Constants DEF RequestPhases, Adding,
     Starting, Moves
<1>7. PoppedForGood'
  BY Parts, <1>1, ShutDownEffect, Members, NextMembers, Constants DEF PoppedForGood,
     UnpushedUnseen, RequestPhases, Adding, Moves
<1>8. StartsAreSeen'
  BY Parts, <1>1, ShutDownEffect, AboutMembers, NextAboutMembers, Constants DEF
     StartsAreSeen, About, ServerPhases, Moves
<1>9. ServerPhases'
  BY Parts, <1>1, ShutDownEffect, Constants DEF ServerPhases, Moves
<1>10. RunningClientsOwned'
  BY Parts, <1>1, ShutDownEffect, Members, NextMembers, AboutMembers, Constants DEF
     RunningClientsOwned, StartsAreSeen, About, Moves
<1>11. LostOutlive'
  BY Parts, <1>1, ShutDownEffect, Members, NextMembers, AboutMembers, Constants DEF
     LostOutlive, StartsAreSeen, RunningClientsOwned, ServerPhases, About, Moves
<1>12. AloneCounts'
  <2>1. StillToDo(r) => StillToDo(r)'
    <3>1. c \notin Elements /\ c \notin request[r].todo
      BY <1>1, Parts, Members DEF PoppedForGood, RequestPhases
    <3>2. Running' = Running \ {c}
      BY <1>1, Parts, ShutDownEffect
    <3>3. HeadlessClientsConnected' = HeadlessClientsConnected
      <4>1. Elements' \cap Running' = Elements \cap Running
        BY <1>1, <3>1, <3>2
      <4> QED
        BY <4>1 DEF HeadlessClientsConnected
    <3>4. request'[r].todo \ Running' = request[r].todo \ Running
      BY <1>1, <3>1, <3>2 DEF Moves
    <3> QED
      BY <1>1, <3>3, <3>4 DEF StillToDo, Starting, Moves, FlagsKept
  <2> QED
    BY <1>1, <2>1, Parts, AloneStep
<1>13. StartedOnce'
  BY Parts, <1>1, ShutDownEffect, Constants DEF StartedOnce, Starting, ServerPhases,
     RequestPhases, Moves
<1> QED
  BY <1>2, <1>3, <1>4, <1>5, <1>6, <1>7, <1>8, <1>9, <1>10, <1>11, <1>12, <1>13 DEF
     HeadlessInv, PushedOnce

LEMMA MeetNullKeeps ==
  ASSUME HeadlessInv, NEW r \in Requests, MeetNull(r)
  PROVE  HeadlessInv'
<1>1. /\ request[r].pc = "close" /\ dropped' = dropped \cup request[r].todo
      /\ request'[r].failed
      /\ Moves(r, request[r].pc, request[r].desired, request[r].change, {},
               request[r].wait, request[r].cur)
      /\ StepBy(r)
      /\ UNCHANGED <<server, stack, client, doubled, worker, handler, raced,
                     Elements, Running>>
  BY Parts, MeetNullEffect
<1>2. TypeOK'
  BY Parts, <1>1, RequestFields DEF TypeOK, StepBy, Moves
<1>3. UnpushedUnseen'
  BY Parts, <1>1, Members, NextMembers, SeenTyped, Constants DEF UnpushedUnseen, OwnClients,
     RequestPhases, Adding, Starting, Moves
<1>4. SeenAreMade'
  BY Parts, <1>1, Members, NextMembers, SeenTyped, Constants DEF SeenAreMade,
     UnpushedUnseen, RequestPhases, Adding, Starting, Moves
<1>5. OwnClients'
  BY Parts, <1>1, Members, Constants DEF OwnClients, UnpushedUnseen, Adding, Starting, Moves
<1>6. RequestPhases'
  BY Parts, <1>1, RequestFields, Constants DEF RequestPhases, Adding, Starting, Moves
<1>7. PoppedForGood'
  BY Parts, <1>1, Members, NextMembers, Constants DEF PoppedForGood, UnpushedUnseen,
     RequestPhases, Adding, Moves
<1>8. StartsAreSeen'
  BY Parts, <1>1, AboutMembers, NextAboutMembers, Constants DEF StartsAreSeen, About,
     ServerPhases, Moves
<1>9. ServerPhases'
  BY Parts, <1>1, Constants DEF ServerPhases, Moves
<1>10. RunningClientsOwned'
  BY Parts, <1>1, Members, NextMembers, AboutMembers, Constants DEF RunningClientsOwned,
     StartsAreSeen, About, Moves
<1>11. LostOutlive'
  BY Parts, <1>1, Members, NextMembers, AboutMembers, Constants DEF LostOutlive,
     StartsAreSeen, RunningClientsOwned, ServerPhases, About, Moves
<1>12. AloneCounts'
  <2>1. StillToDo(r) => StillToDo(r)'
    BY <1>1, Parts DEF StillToDo, Starting, Moves
  <2> QED
    BY <1>1, <2>1, Parts, AloneStep
<1>13. StartedOnce'
  BY Parts, <1>1, Constants DEF StartedOnce, Starting, ServerPhases, RequestPhases, Moves
<1> QED
  BY <1>2, <1>3, <1>4, <1>5, <1>6, <1>7, <1>8, <1>9, <1>10, <1>11, <1>12, <1>13 DEF
     HeadlessInv, PushedOnce

LEMMA RemovedKeeps ==
  ASSUME HeadlessInv, NEW r \in Requests, Removed(r)
  PROVE  HeadlessInv'
<1>1. /\ request[r].pc = "close" /\ request[r].todo = {} /\ request[r].wait = {}
      /\ Moves(r, "done", 0, 0, {}, {}, NoClient)
      /\ StepBy(r)
      /\ UNCHANGED <<server, stack, client, doubled, worker, handler, raced, dropped,
                     Elements, Running>>
  BY Parts, RemovedEffect
<1>2. TypeOK'
  BY Parts, <1>1, StartsTyped, Constants DEF TypeOK, StepBy, Moves
<1>3. UnpushedUnseen'
  BY Parts, <1>1, Members, NextMembers, SeenTyped, Constants DEF UnpushedUnseen, OwnClients,
     RequestPhases, Adding, Starting, Moves
<1>4. SeenAreMade'
  BY Parts, <1>1, Members, NextMembers, SeenTyped, Constants DEF SeenAreMade,
     UnpushedUnseen, RequestPhases, Adding, Starting, Moves
<1>5. OwnClients'
  BY Parts, <1>1, Members, Constants DEF OwnClients, UnpushedUnseen, Adding, Starting, Moves
<1>6. RequestPhases'
  BY Parts, <1>1, RequestFields, Constants DEF RequestPhases, Adding, Starting, Moves
<1>7. PoppedForGood'
  BY Parts, <1>1, Members, NextMembers, Constants DEF PoppedForGood, UnpushedUnseen,
     RequestPhases, Adding, Moves
<1>8. StartsAreSeen'
  BY Parts, <1>1, AboutMembers, NextAboutMembers, Constants DEF StartsAreSeen, About,
     ServerPhases, Moves
<1>9. ServerPhases'
  BY Parts, <1>1, Constants DEF ServerPhases, Moves
<1>10. RunningClientsOwned'
  BY Parts, <1>1, Members, NextMembers, AboutMembers, Constants DEF RunningClientsOwned,
     StartsAreSeen, About, Moves
<1>11. LostOutlive'
  BY Parts, <1>1, Members, NextMembers, AboutMembers, Constants DEF LostOutlive,
     StartsAreSeen, RunningClientsOwned, ServerPhases, About, Moves
<1>12. AloneCounts'
  <2>1. StillToDo(r) => StillToDo(r)'
    BY <1>1, Parts DEF StillToDo, Starting, Moves
  <2> QED
    BY <1>1, <2>1, Parts, AloneStep
<1>13. StartedOnce'
  BY Parts, <1>1, Constants DEF StartedOnce, Starting, ServerPhases, RequestPhases, Moves
<1> QED
  BY <1>2, <1>3, <1>4, <1>5, <1>6, <1>7, <1>8, <1>9, <1>10, <1>11, <1>12, <1>13 DEF
     HeadlessInv, PushedOnce

LEMMA CreateKeeps ==
  ASSUME HeadlessInv, NEW r \in Requests, Create(r)
  PROVE  HeadlessInv'
<1>1. /\ request[r].pc = "create" /\ StepBy(r)
      /\ UNCHANGED <<server, stack, doubled, worker, handler, raced, dropped, Elements,
                     Running>>
      /\ client' \in [Clients -> ClientState]
      /\ \/ client' = client /\ Moves(r, "done", 0, 0, {}, {}, NoClient)
         \/ \E cs \in SUBSET Clients :
              /\ \A c \in cs : client[c] = "new"
              /\ IsFiniteSet(cs) /\ Cardinality(cs) = request[r].change
              /\ client' = [c \in Clients |-> IF c \in cs THEN "made" ELSE client[c]]
              /\ Moves(r, "add", request[r].desired, request[r].change, cs,
                       request[r].wait, request[r].cur)
  BY Parts, CreateEffect
<1>2. TypeOK'
  BY Parts, <1>1 DEF TypeOK, StepBy, Moves
<1>3. UnpushedUnseen'
  BY Parts, <1>1, Members, NextMembers, SeenTyped, Constants DEF UnpushedUnseen,
     SeenAreMade, OwnClients, RequestPhases, Adding, Starting, Moves
<1>4. SeenAreMade'
  BY Parts, <1>1, Members, NextMembers, SeenTyped, Constants DEF SeenAreMade,
     UnpushedUnseen, RequestPhases, Adding, Starting, Moves
<1>5. OwnClients'
  BY Parts, <1>1, Members, Constants DEF OwnClients, UnpushedUnseen, Adding, Starting, Moves
<1>6. RequestPhases'
  BY Parts, <1>1, RequestFields, Constants DEF RequestPhases, Adding, Starting, Moves
<1>7. PoppedForGood'
  BY Parts, <1>1, Members, NextMembers, Constants DEF PoppedForGood, UnpushedUnseen,
     RequestPhases, Adding, Moves
<1>8. StartsAreSeen'
  BY Parts, <1>1, AboutMembers, NextAboutMembers, Constants DEF StartsAreSeen, About,
     ServerPhases, Moves
<1>9. ServerPhases'
  BY Parts, <1>1, Constants DEF ServerPhases, Moves
<1>10. RunningClientsOwned'
  BY Parts, <1>1, Members, NextMembers, AboutMembers, Constants DEF RunningClientsOwned,
     StartsAreSeen, About, Moves
<1>11. LostOutlive'
  BY Parts, <1>1, Members, NextMembers, AboutMembers, Constants DEF LostOutlive,
     StartsAreSeen, RunningClientsOwned, ServerPhases, About, Moves
<1>12. AloneCounts'
  <2>1. StillToDo(r) => StillToDo(r)'
    <3>1. /\ HeadlessClientsConnected \in Nat
          /\ request[r].desired \in Nat /\ request[r].change \in Int
      BY Parts, CountsAreNat, RequestFields
    <3>2. CASE Moves(r, "done", 0, 0, {}, {}, NoClient)
      BY <3>2 DEF StillToDo, Starting, Moves
    <3>3. ASSUME NEW cs \in SUBSET Clients, Cardinality(cs) = request[r].change,
                 Moves(r, "add", request[r].desired, request[r].change, cs,
                       request[r].wait, request[r].cur)
          PROVE  StillToDo(r) => StillToDo(r)'
      BY <1>1, <3>1, <3>3, SameCount DEF StillToDo, Starting, Moves
    <3> QED
      BY <1>1, <3>2, <3>3
  <2> QED
    BY <1>1, <2>1, Parts, AloneStep
<1>13. StartedOnce'
  BY Parts, <1>1, Constants DEF StartedOnce, Starting, ServerPhases, RequestPhases, Moves
<1> QED
  BY <1>2, <1>3, <1>4, <1>5, <1>6, <1>7, <1>8, <1>9, <1>10, <1>11, <1>12, <1>13 DEF
     HeadlessInv, PushedOnce

LEMMA PushKeeps ==
  ASSUME HeadlessInv, NEW r \in Requests, NEW c \in Clients, Push(r, c)
  PROVE  HeadlessInv'
<1>1. c \notin Elements
  BY Parts, Members DEF Push, UnpushedUnseen, Adding
<1>2. /\ request[r].pc = "add" /\ c \in request[r].todo
      /\ Moves(r, "pushed", request[r].desired, request[r].change, request[r].todo \ {c},
               request[r].wait, c)
      /\ FlagsKept(r)
      /\ stack' \in Seq(Clients) /\ IsInjective(stack') /\ Elements' = Elements \cup {c}
      /\ StepBy(r)
      /\ UNCHANGED <<server, client, doubled, worker, handler, raced, dropped, Running>>
  BY <1>1, Parts, PushEffect
<1>3. TypeOK'
  BY Parts, <1>2, StartsTyped, Constants DEF TypeOK, StepBy, Moves
<1>4. UnpushedUnseen'
  BY Parts, <1>2, Members, NextMembers, SeenTyped, Constants DEF UnpushedUnseen, OwnClients,
     RequestPhases, Adding, Starting, Moves
<1>5. SeenAreMade'
  <2>1. client[c] = "made" /\ client' = client
    BY <1>2, Parts, Members DEF UnpushedUnseen, Adding
  <2>2. ASSUME NEW d \in Seen' PROVE d \in Seen \cup {c}
    BY <1>2, <2>2, Parts, Members, NextMembers DEF Moves, Starting
  <2> QED
    BY <2>1, <2>2, Parts DEF SeenAreMade
<1>6. OwnClients'
  BY Parts, <1>2, Members, Constants DEF OwnClients, UnpushedUnseen, Adding, Starting, Moves
<1>7. RequestPhases'
  BY Parts, <1>2, RequestFields, Constants DEF RequestPhases, Adding, Starting, Moves
<1>8. PoppedForGood'
  BY Parts, <1>2, Members, NextMembers, Constants DEF PoppedForGood, UnpushedUnseen,
     RequestPhases, Adding, Moves
<1>9. StartsAreSeen'
  BY Parts, <1>2, AboutMembers, NextAboutMembers, Constants DEF StartsAreSeen, About,
     ServerPhases, Moves
<1>10. ServerPhases'
  BY Parts, <1>2, Constants DEF ServerPhases, Moves
<1>11. RunningClientsOwned'
  BY Parts, <1>2, Members, NextMembers, AboutMembers, Constants DEF RunningClientsOwned,
     StartsAreSeen, About, Moves
<1>12. LostOutlive'
  <2>1. InHands \subseteq InHands'
    BY <1>2, Parts, Members, NextMembers DEF Moves
  <2> QED
    BY <1>2, <2>1, Parts DEF LostOutlive
<1>13. AloneCounts'
  <2>1. StillToDo(r) => StillToDo(r)'
    <3>1. client[c] = "made" /\ c \notin Running
      BY <1>2, Parts, Members DEF UnpushedUnseen, Adding
    <3>2. HeadlessClientsConnected' = HeadlessClientsConnected
      <4>1. Elements' \cap Running' = Elements \cap Running
        BY <1>2, <3>1
      <4> QED
        BY <4>1 DEF HeadlessClientsConnected
    <3>3. /\ Cardinality(request'[r].todo) + 1 = Cardinality(request[r].todo)
          /\ Cardinality(request'[r].todo) \in Nat
      <4> DEFINE T == request[r].todo
      <4>1. IsFiniteSet(T) /\ c \in T /\ request'[r].todo = T \ {c}
        BY <1>2, Parts, RequestFields, Constants, FS_Subset DEF Moves
      <4> HIDE DEF T
      <4>2. /\ IsFiniteSet(T \ {c}) /\ Cardinality(T \ {c}) = Cardinality(T) - 1
            /\ Cardinality(T) \in Nat
        BY <4>1, FS_RemoveElement, FS_CardinalityType
      <4>3. Cardinality(T \ {c}) \in Nat
        BY <4>2, FS_CardinalityType
      <4> QED
        BY <4>1, <4>2, <4>3 DEF T
    <3>4. HeadlessClientsConnected \in Nat /\ request[r].desired \in Nat
      BY Parts, CountsAreNat, RequestFields
    <3> QED
      BY <1>2, <3>1, <3>2, <3>3, <3>4 DEF StillToDo, Starting, Moves, FlagsKept
  <2> QED
    BY <1>2, <2>1, Parts, AloneStep
<1>14. StartedOnce'
  <2>1. client[c] = "made" /\ client' = client
    BY <1>2, Parts, Members DEF UnpushedUnseen, Adding
  <2> QED
    BY <1>2, <2>1, Parts DEF StartedOnce, Starting, Moves
<1> QED
  BY <1>3, <1>4, <1>5, <1>6, <1>7, <1>8, <1>9, <1>10, <1>11, <1>12, <1>13, <1>14 DEF
     HeadlessInv, PushedOnce

LEMMA CheckServerKeeps ==
  ASSUME HeadlessInv, NEW r \in Requests, CheckServer(r)
  PROVE  HeadlessInv'
<1>1. /\ request[r].pc = "pushed"
      /\ \E v \in {"add", "start"} :
           /\ v = IF server.proc = "up" THEN "start" ELSE "add"
           /\ Moves(r, v, request[r].desired, request[r].change, request[r].todo,
                    request[r].wait, request[r].cur)
      /\ FlagsKept(r) /\ StepBy(r)
      /\ UNCHANGED <<server, stack, client, doubled, worker, handler, raced, dropped,
                     Elements, Running>>
  BY Parts, CheckServerEffect
<1>2. TypeOK'
  BY Parts, <1>1, StartsTyped, Constants DEF TypeOK, StepBy, Moves
<1>3. UnpushedUnseen'
  BY Parts, <1>1, Members, NextMembers, SeenTyped, Constants DEF UnpushedUnseen, OwnClients,
     RequestPhases, Adding, Starting, Moves
<1>4. SeenAreMade'
  BY Parts, <1>1, Members, NextMembers, SeenTyped, Constants DEF SeenAreMade,
     UnpushedUnseen, RequestPhases, Adding, Starting, Moves
<1>5. OwnClients'
  BY Parts, <1>1, Members, Constants DEF OwnClients, UnpushedUnseen, Adding, Starting, Moves
<1>6. RequestPhases'
  BY Parts, <1>1, RequestFields, Constants DEF RequestPhases, Adding, Starting, Moves
<1>7. PoppedForGood'
  BY Parts, <1>1, Members, NextMembers, Constants DEF PoppedForGood, UnpushedUnseen,
     RequestPhases, Adding, Moves
<1>8. StartsAreSeen'
  BY Parts, <1>1, AboutMembers, NextAboutMembers, Constants DEF StartsAreSeen, About,
     ServerPhases, Moves
<1>9. ServerPhases'
  BY Parts, <1>1, Constants DEF ServerPhases, Moves
<1>10. RunningClientsOwned'
  BY Parts, <1>1, Members, NextMembers, AboutMembers, Constants DEF RunningClientsOwned,
     StartsAreSeen, About, Moves
<1>11. LostOutlive'
  BY Parts, <1>1, Members, NextMembers, AboutMembers, Constants DEF LostOutlive,
     StartsAreSeen, RunningClientsOwned, ServerPhases, About, Moves
<1>12. AloneCounts'
  <2>1. StillToDo(r) => StillToDo(r)'
    BY <1>1, Parts, SameCount DEF StillToDo, Starting, Moves, FlagsKept
  <2> QED
    BY <1>1, <2>1, Parts, AloneStep
<1>13. StartedOnce'
  BY Parts, <1>1, Constants DEF StartedOnce, Starting, ServerPhases, RequestPhases, Moves
<1> QED
  BY <1>2, <1>3, <1>4, <1>5, <1>6, <1>7, <1>8, <1>9, <1>10, <1>11, <1>12, <1>13 DEF
     HeadlessInv, PushedOnce

LEMMA TestMineKeeps ==
  ASSUME HeadlessInv, NEW r \in Requests, TestMine(r)
  PROVE  HeadlessInv'
<1>1. /\ request[r].pc = "start"
      /\ \E v \in {"add", "launch"} :
           /\ v = IF client[request[r].cur] = "up" THEN "add" ELSE "launch"
           /\ Moves(r, v, request[r].desired, request[r].change, request[r].todo,
                    request[r].wait, request[r].cur)
      /\ FlagsKept(r) /\ StepBy(r)
      /\ UNCHANGED <<server, stack, client, doubled, worker, handler, raced, dropped,
                     Elements, Running>>
  BY Parts, TestMineEffect
<1>2. TypeOK'
  BY Parts, <1>1, StartsTyped, Constants DEF TypeOK, StepBy, Moves
<1>3. UnpushedUnseen'
  BY Parts, <1>1, Members, NextMembers, SeenTyped, Constants DEF UnpushedUnseen, OwnClients,
     RequestPhases, Adding, Starting, Moves
<1>4. SeenAreMade'
  BY Parts, <1>1, Members, NextMembers, SeenTyped, Constants DEF SeenAreMade,
     UnpushedUnseen, RequestPhases, Adding, Starting, Moves
<1>5. OwnClients'
  BY Parts, <1>1, Members, Constants DEF OwnClients, UnpushedUnseen, Adding, Starting, Moves
<1>6. RequestPhases'
  BY Parts, <1>1, RequestFields, Constants DEF RequestPhases, Adding, Starting, Moves
<1>7. PoppedForGood'
  BY Parts, <1>1, Members, NextMembers, Constants DEF PoppedForGood, UnpushedUnseen,
     RequestPhases, Adding, Moves
<1>8. StartsAreSeen'
  BY Parts, <1>1, AboutMembers, NextAboutMembers, Constants DEF StartsAreSeen, About,
     ServerPhases, Moves
<1>9. ServerPhases'
  BY Parts, <1>1, Constants DEF ServerPhases, Moves
<1>10. RunningClientsOwned'
  BY Parts, <1>1, Members, NextMembers, AboutMembers, Constants DEF RunningClientsOwned,
     StartsAreSeen, About, Moves
<1>11. LostOutlive'
  BY Parts, <1>1, Members, NextMembers, AboutMembers, Constants DEF LostOutlive,
     StartsAreSeen, RunningClientsOwned, ServerPhases, About, Moves
<1>12. AloneCounts'
  <2>1. StillToDo(r) => StillToDo(r)'
    BY <1>1, Parts, SameCount, CountsAreNat, RequestFields DEF StillToDo, Starting, Moves, FlagsKept
  <2> QED
    BY <1>1, <2>1, Parts, AloneStep
<1>13. StartedOnce'
  BY Parts, <1>1, Constants DEF StartedOnce, Starting, ServerPhases, RequestPhases, Moves
<1> QED
  BY <1>2, <1>3, <1>4, <1>5, <1>6, <1>7, <1>8, <1>9, <1>10, <1>11, <1>12, <1>13 DEF
     HeadlessInv, PushedOnce

LEMMA LaunchMineKeeps ==
  ASSUME HeadlessInv, NEW r \in Requests, LaunchMine(r)
  PROVE  HeadlessInv'
<1>1. request[r].cur \in Clients
  BY Parts DEF LaunchMine, RequestPhases, Starting
<1>2. /\ request[r].pc = "launch" /\ Launch(request[r].cur)
      /\ Moves(r, "add", request[r].desired, request[r].change, request[r].todo,
               request[r].wait, request[r].cur)
      /\ FlagsKept(r)
      /\ client'[request[r].cur] # "up" => request'[r].failed
      /\ StepBy(r)
      /\ UNCHANGED <<server, stack, worker, handler, raced, dropped, Elements>>
  BY <1>1, Parts, LaunchMineEffect
<1>3. /\ client' \in [Clients -> ClientState] /\ doubled' \subseteq Clients
      /\ \A d \in Clients \ {request[r].cur} : client'[d] = client[d]
      /\ client'[request[r].cur] = "up" \/ client'[request[r].cur] = client[request[r].cur]
      /\ client'[request[r].cur] = "up" => Running' = Running \cup {request[r].cur}
      /\ client'[request[r].cur] # "up" => Running' = Running
      /\ doubled' = doubled \/ (client[request[r].cur] = "up" /\ client'[request[r].cur] = "up")
  BY <1>1, <1>2, Parts, LaunchEffect
<1>4. TypeOK'
  BY Parts, <1>2, <1>3, StartsTyped, Constants DEF TypeOK, StepBy, RequestPhases, Starting,
     Moves
<1>5. UnpushedUnseen'
  BY Parts, <1>2, <1>3, Members, NextMembers, SeenTyped, Constants DEF UnpushedUnseen,
     OwnClients, RequestPhases, Adding, Starting, Moves
<1>6. SeenAreMade'
  BY Parts, <1>2, <1>3, Members, NextMembers, SeenTyped, Constants DEF SeenAreMade,
     UnpushedUnseen, RequestPhases, Adding, Starting, Moves
<1>7. OwnClients'
  BY Parts, <1>2, <1>3, Members, Constants DEF OwnClients, UnpushedUnseen, Adding, Starting,
     RequestPhases, Moves
<1>8. RequestPhases'
  BY Parts, <1>2, <1>3, RequestFields, Constants DEF RequestPhases, Adding, Starting, Moves
<1>9. PoppedForGood'
  BY Parts, <1>2, <1>3, Members, NextMembers, Constants DEF PoppedForGood, UnpushedUnseen,
     RequestPhases, Adding, Starting, Moves
<1>10. StartsAreSeen'
  BY Parts, <1>2, <1>3, AboutMembers, NextAboutMembers, Constants DEF StartsAreSeen, About,
     ServerPhases, RequestPhases, Starting, Moves
<1>11. ServerPhases'
  BY Parts, <1>2, <1>3, Constants DEF ServerPhases, RequestPhases, Starting, Moves
<1>12. RunningClientsOwned'
  BY Parts, <1>2, <1>3, Members, NextMembers, AboutMembers, Constants DEF
     RunningClientsOwned, StartsAreSeen, About, RequestPhases, Starting, Moves
<1>13. LostOutlive'
  BY Parts, <1>2, <1>3, Members, NextMembers, AboutMembers, Constants DEF LostOutlive,
     StartsAreSeen, RunningClientsOwned, ServerPhases, About, RequestPhases, Starting, Moves
<1>14. AloneCounts'
  <2>1. StillToDo(r) => StillToDo(r)'
    <3> DEFINE c == request[r].cur
    <3>1. CASE client'[c] # "up"
      BY <1>2, <3>1 DEF StillToDo, Starting, Moves, FlagsKept
    <3>2. CASE client'[c] = "up" /\ client[c] = "made" /\ c \in Elements
      <4>1. HeadlessClientsConnected' = HeadlessClientsConnected + 1
        <5>0. c \notin Running
          BY <3>2, Members
        <5>1. /\ Elements' \cap Running' = (Elements \cap Running) \cup {c}
              /\ c \notin Elements \cap Running
          BY <1>2, <1>3, <3>2, <5>0
        <5>2. IsFiniteSet(Elements \cap Running) /\ HeadlessClientsConnected \in Nat
          BY Parts, CountsAreNat
        <5> QED
          BY <5>1, <5>2, FS_AddElement DEF HeadlessClientsConnected
      <4>2. IsFiniteSet(request[r].todo)
        BY Parts, RequestFields, Constants, FS_Subset
      <4>3. /\ Cardinality(request[r].todo) \in Nat /\ HeadlessClientsConnected \in Nat
            /\ request[r].desired \in Nat
        BY <4>2, Parts, CountsAreNat, RequestFields, FS_CardinalityType
      <4> QED
        BY <1>2, <4>1, <4>3 DEF StillToDo, Starting, Moves, FlagsKept
    <3> QED
      BY <1>2, <3>1, <3>2 DEF StillToDo, Starting, Moves, FlagsKept
  <2> QED
    BY <1>2, <2>1, Parts, AloneStep
<1>15. StartedOnce'
  BY Parts, <1>2, <1>3, Constants DEF StartedOnce, Starting, OwnClients, RequestPhases,
     Moves
<1> QED
  BY <1>4, <1>5, <1>6, <1>7, <1>8, <1>9, <1>10, <1>11, <1>12, <1>13, <1>14, <1>15 DEF
     HeadlessInv, PushedOnce

LEMMA AddedKeeps ==
  ASSUME HeadlessInv, NEW r \in Requests, Added(r)
  PROVE  HeadlessInv'
<1>1. /\ request[r].pc = "add" /\ request[r].todo = {}
      /\ Moves(r, "done", 0, 0, {}, {}, NoClient)
      /\ StepBy(r)
      /\ UNCHANGED <<server, stack, client, doubled, worker, handler, raced, dropped,
                     Elements, Running>>
  BY Parts, AddedEffect
<1>2. TypeOK'
  BY Parts, <1>1, StartsTyped, Constants DEF TypeOK, StepBy, Moves
<1>3. UnpushedUnseen'
  BY Parts, <1>1, Members, NextMembers, SeenTyped, Constants DEF UnpushedUnseen, OwnClients,
     RequestPhases, Adding, Starting, Moves
<1>4. SeenAreMade'
  BY Parts, <1>1, Members, NextMembers, SeenTyped, Constants DEF SeenAreMade,
     UnpushedUnseen, RequestPhases, Adding, Starting, Moves
<1>5. OwnClients'
  BY Parts, <1>1, Members, Constants DEF OwnClients, UnpushedUnseen, Adding, Starting, Moves
<1>6. RequestPhases'
  BY Parts, <1>1, RequestFields, Constants DEF RequestPhases, Adding, Starting, Moves
<1>7. PoppedForGood'
  BY Parts, <1>1, Members, NextMembers, Constants DEF PoppedForGood, UnpushedUnseen,
     RequestPhases, Adding, Moves
<1>8. StartsAreSeen'
  BY Parts, <1>1, AboutMembers, NextAboutMembers, Constants DEF StartsAreSeen, About,
     ServerPhases, Moves
<1>9. ServerPhases'
  BY Parts, <1>1, Constants DEF ServerPhases, Moves
<1>10. RunningClientsOwned'
  BY Parts, <1>1, Members, NextMembers, AboutMembers, Constants DEF RunningClientsOwned,
     StartsAreSeen, About, Moves
<1>11. LostOutlive'
  BY Parts, <1>1, Members, NextMembers, AboutMembers, Constants DEF LostOutlive,
     StartsAreSeen, RunningClientsOwned, ServerPhases, About, Moves
<1>12. AloneCounts'
  <2>1. StillToDo(r) => StillToDo(r)'
    BY <1>1, Parts DEF StillToDo, Starting, Moves
  <2> QED
    BY <1>1, <2>1, Parts, AloneStep
<1>13. StartedOnce'
  BY Parts, <1>1, Constants DEF StartedOnce, Starting, ServerPhases, RequestPhases, Moves
<1> QED
  BY <1>2, <1>3, <1>4, <1>5, <1>6, <1>7, <1>8, <1>9, <1>10, <1>11, <1>12, <1>13 DEF
     HeadlessInv, PushedOnce

LEMMA StartServerKeeps ==
  ASSUME HeadlessInv, StartServer, alone' = NoRequest
  PROVE  HeadlessInv'
<1>1. /\ worker.pc = "prepare" /\ ServerKept
      /\ \/ /\ server'.proc = "up"
            /\ Task(worker', "launched", worker.todo, worker.wait, worker.cur)
         \/ server'.proc = server.proc /\ NoTaskFields(worker')
      /\ UNCHANGED <<stack, client, doubled, request, handler, raced, dropped, Elements,
                     Running>>
  BY Parts, StartServerEffect
<1>2. TypeOK'
  BY Parts, <1>1, StartsTyped, Constants DEF TypeOK, StepBy, ServerKept, Task, NoTaskFields,
     IsServerStopped
<1>3. UnpushedUnseen'
  BY Parts, <1>1, Members, NextMembers, SeenTyped, Constants DEF UnpushedUnseen, OwnClients,
     RequestPhases, Adding, Starting, ServerKept, Task, NoTaskFields, IsServerStopped
<1>4. SeenAreMade'
  BY Parts, <1>1, Members, NextMembers, SeenTyped, Constants DEF SeenAreMade,
     UnpushedUnseen, RequestPhases, Adding, Starting, ServerKept, Task, NoTaskFields,
     IsServerStopped
<1>5. OwnClients'
  BY Parts, <1>1, Members, Constants DEF OwnClients, UnpushedUnseen, Adding, Starting,
     ServerKept, Task, NoTaskFields, IsServerStopped
<1>6. RequestPhases'
  BY Parts, <1>1, RequestFields, Constants DEF RequestPhases, Adding, Starting, ServerKept,
     Task, NoTaskFields, IsServerStopped
<1>7. PoppedForGood'
  BY Parts, <1>1, Members, NextMembers, Constants DEF PoppedForGood, UnpushedUnseen,
     RequestPhases, Adding, ServerKept, Task, NoTaskFields, IsServerStopped
<1>8. StartsAreSeen'
  BY Parts, <1>1, AboutMembers, NextAboutMembers, Constants DEF StartsAreSeen, About,
     ServerPhases, ServerKept, Task, NoTaskFields, IsServerStopped
<1>9. ServerPhases'
  BY Parts, <1>1, Constants DEF ServerPhases, ServerKept, Task, NoTaskFields,
     IsServerStopped
<1>10. RunningClientsOwned'
  BY Parts, <1>1, Members, NextMembers, AboutMembers, Constants DEF RunningClientsOwned,
     StartsAreSeen, About, ServerKept, Task, NoTaskFields, IsServerStopped
<1>11. LostOutlive'
  BY Parts, <1>1, Members, NextMembers, AboutMembers, Constants DEF LostOutlive,
     StartsAreSeen, RunningClientsOwned, ServerPhases, About, ServerKept, Task,
     NoTaskFields, IsServerStopped
<1>12. AloneCounts'
  BY Parts, <1>1, SameCount, CountsAreNat, RequestFields, Constants DEF AloneCounts, StepBy,
     Starting, FlagsKept, ServerKept, Task, NoTaskFields, IsServerStopped
<1>13. StartedOnce'
  BY Parts, <1>1, Constants DEF StartedOnce, Starting, ServerPhases, RequestPhases,
     ServerKept, Task, NoTaskFields, IsServerStopped
<1> QED
  BY <1>2, <1>3, <1>4, <1>5, <1>6, <1>7, <1>8, <1>9, <1>10, <1>11, <1>12, <1>13 DEF
     HeadlessInv, PushedOnce

LEMMA SubscribeExitKeeps ==
  ASSUME HeadlessInv, SubscribeExit, alone' = NoRequest
  PROVE  HeadlessInv'
<1>1. /\ worker.pc = "launched"
      /\ server' \in ServerRecord /\ server'.proc = server.proc /\ server'.started
      /\ server.proc = "up" => server'.watched
      /\ Task(worker', "starting", Elements, worker.wait, worker.cur)
      /\ raced' = raced \cup (IF IsServerStopped THEN Elements ELSE {})
      /\ UNCHANGED <<stack, client, doubled, request, handler, dropped, Elements, Running>>
  BY Parts, SubscribeExitEffect
<1>2. TypeOK'
  BY Parts, Fields, <1>1 DEF TypeOK, Task
<1>3. UnpushedUnseen'
  BY Parts, <1>1, Members, NextMembers, SeenTyped, Constants DEF UnpushedUnseen, OwnClients,
     RequestPhases, Adding, Starting, ServerKept, Task, NoTaskFields, IsServerStopped
<1>4. SeenAreMade'
  BY Parts, <1>1, Members, NextMembers, SeenTyped, Constants DEF SeenAreMade,
     UnpushedUnseen, RequestPhases, Adding, Starting, ServerKept, Task, NoTaskFields,
     IsServerStopped
<1>5. OwnClients'
  BY Parts, <1>1, Members, Constants DEF OwnClients, UnpushedUnseen, Adding, Starting,
     ServerKept, Task, NoTaskFields, IsServerStopped
<1>6. RequestPhases'
  BY Parts, <1>1, RequestFields, Constants DEF RequestPhases, Adding, Starting, ServerKept,
     Task, NoTaskFields, IsServerStopped
<1>7. PoppedForGood'
  BY Parts, <1>1, Members, NextMembers, Constants DEF PoppedForGood, UnpushedUnseen,
     RequestPhases, Adding, ServerKept, Task, NoTaskFields, IsServerStopped
<1>8. StartsAreSeen'
  BY Parts, <1>1, AboutMembers, NextAboutMembers, Constants DEF StartsAreSeen, About,
     ServerPhases, ServerKept, Task, NoTaskFields, IsServerStopped
<1>9. ServerPhases'
  BY Parts, <1>1, Constants DEF ServerPhases, ServerKept, Task, NoTaskFields,
     IsServerStopped
<1>10. RunningClientsOwned'
  BY Parts, <1>1, Members, NextMembers, AboutMembers, Constants DEF RunningClientsOwned,
     StartsAreSeen, About, ServerKept, Task, NoTaskFields, IsServerStopped
<1>11. LostOutlive'
  BY Parts, <1>1, Members, NextMembers, AboutMembers, Constants DEF LostOutlive,
     StartsAreSeen, RunningClientsOwned, ServerPhases, About, ServerKept, Task,
     NoTaskFields, IsServerStopped
<1>12. AloneCounts'
  BY Parts, <1>1, SameCount, CountsAreNat, RequestFields, Constants DEF AloneCounts, StepBy,
     Starting, FlagsKept, ServerKept, Task, NoTaskFields, IsServerStopped
<1>13. StartedOnce'
  BY Parts, <1>1, Constants DEF StartedOnce, Starting, ServerPhases, RequestPhases,
     ServerKept, Task, NoTaskFields, IsServerStopped
<1> QED
  BY <1>2, <1>3, <1>4, <1>5, <1>6, <1>7, <1>8, <1>9, <1>10, <1>11, <1>12, <1>13 DEF
     HeadlessInv, PushedOnce

LEMMA TestClientOfServerKeeps ==
  ASSUME HeadlessInv, NEW c \in Clients, TestClientOfServer(c), alone' = NoRequest
  PROVE  HeadlessInv'
<1>1. /\ worker.pc = "starting" /\ c \in worker.todo
      /\ \E pc \in {"starting", "launch"} :
           Task(worker', pc, worker.todo \ {c}, worker.wait, c)
      /\ UNCHANGED <<server, stack, client, doubled, request, handler, raced, dropped,
                     Elements, Running>>
  BY Parts, TestClientOfServerEffect
<1>2. TypeOK'
  BY Parts, <1>1, StartsTyped, Constants DEF TypeOK, StepBy, ServerKept, Task, NoTaskFields,
     IsServerStopped
<1>3. UnpushedUnseen'
  BY Parts, <1>1, Members, NextMembers, SeenTyped, Constants DEF UnpushedUnseen, OwnClients,
     RequestPhases, Adding, Starting, ServerKept, Task, NoTaskFields, IsServerStopped
<1>4. SeenAreMade'
  BY Parts, <1>1, Members, NextMembers, SeenTyped, Constants DEF SeenAreMade,
     UnpushedUnseen, RequestPhases, Adding, Starting, ServerKept, Task, NoTaskFields,
     IsServerStopped
<1>5. OwnClients'
  BY Parts, <1>1, Members, Constants DEF OwnClients, UnpushedUnseen, Adding, Starting,
     ServerKept, Task, NoTaskFields, IsServerStopped
<1>6. RequestPhases'
  BY Parts, <1>1, RequestFields, Constants DEF RequestPhases, Adding, Starting, ServerKept,
     Task, NoTaskFields, IsServerStopped
<1>7. PoppedForGood'
  BY Parts, <1>1, Members, NextMembers, Constants DEF PoppedForGood, UnpushedUnseen,
     RequestPhases, Adding, ServerKept, Task, NoTaskFields, IsServerStopped
<1>8. StartsAreSeen'
  BY Parts, <1>1, AboutMembers, NextAboutMembers, Constants DEF StartsAreSeen, About,
     ServerPhases, ServerKept, Task, NoTaskFields, IsServerStopped
<1>9. ServerPhases'
  BY Parts, <1>1, Constants DEF ServerPhases, ServerKept, Task, NoTaskFields,
     IsServerStopped
<1>10. RunningClientsOwned'
  BY Parts, <1>1, Members, NextMembers, AboutMembers, Constants DEF RunningClientsOwned,
     StartsAreSeen, About, ServerKept, Task, NoTaskFields, IsServerStopped
<1>11. LostOutlive'
  BY Parts, <1>1, Members, NextMembers, AboutMembers, Constants DEF LostOutlive,
     StartsAreSeen, RunningClientsOwned, ServerPhases, About, ServerKept, Task,
     NoTaskFields, IsServerStopped
<1>12. AloneCounts'
  BY Parts, <1>1, SameCount, CountsAreNat, RequestFields, Constants DEF AloneCounts, StepBy,
     Starting, FlagsKept, ServerKept, Task, NoTaskFields, IsServerStopped
<1>13. StartedOnce'
  BY Parts, <1>1, Constants DEF StartedOnce, Starting, ServerPhases, RequestPhases,
     ServerKept, Task, NoTaskFields, IsServerStopped
<1> QED
  BY <1>2, <1>3, <1>4, <1>5, <1>6, <1>7, <1>8, <1>9, <1>10, <1>11, <1>12, <1>13 DEF
     HeadlessInv, PushedOnce

LEMMA LaunchClientOfServerKeeps ==
  ASSUME HeadlessInv, LaunchClientOfServer, alone' = NoRequest
  PROVE  HeadlessInv'
<1>1. worker.cur \in Clients
  BY Parts DEF LaunchClientOfServer, ServerPhases
<1>2. /\ worker.pc = "launch" /\ Launch(worker.cur)
      /\ Task(worker', "starting", worker.todo, worker.wait, worker.cur)
      /\ UNCHANGED <<server, stack, request, handler, raced, dropped, Elements>>
  BY <1>1, Parts, LaunchClientOfServerEffect
<1>3. /\ client' \in [Clients -> ClientState] /\ doubled' \subseteq Clients
      /\ \A d \in Clients \ {worker.cur} : client'[d] = client[d]
      /\ client'[worker.cur] = "up" \/ client'[worker.cur] = client[worker.cur]
      /\ client'[worker.cur] = "up" => Running' = Running \cup {worker.cur}
      /\ client'[worker.cur] # "up" => Running' = Running
      /\ doubled' = doubled \/ (client[worker.cur] = "up" /\ client'[worker.cur] = "up")
  BY <1>1, <1>2, Parts, LaunchEffect
<1>4. TypeOK'
  BY Parts, <1>2, <1>3, StartsTyped, Constants DEF TypeOK, StepBy, ServerKept, Task,
     NoTaskFields, IsServerStopped, ServerPhases
<1>5. UnpushedUnseen'
  BY Parts, <1>2, <1>3, Members, NextMembers, SeenTyped, Constants DEF UnpushedUnseen,
     OwnClients, RequestPhases, Adding, Starting, ServerKept, Task, NoTaskFields,
     IsServerStopped, ServerPhases
<1>6. SeenAreMade'
  BY Parts, <1>2, <1>3, Members, NextMembers, SeenTyped, Constants DEF SeenAreMade,
     UnpushedUnseen, RequestPhases, Adding, Starting, ServerKept, Task, NoTaskFields,
     IsServerStopped, ServerPhases
<1>7. OwnClients'
  BY Parts, <1>2, <1>3, Members, Constants DEF OwnClients, UnpushedUnseen, Adding, Starting,
     ServerKept, Task, NoTaskFields, IsServerStopped, ServerPhases
<1>8. RequestPhases'
  BY Parts, <1>2, <1>3, RequestFields, Constants DEF RequestPhases, Adding, Starting,
     ServerKept, Task, NoTaskFields, IsServerStopped, ServerPhases
<1>9. PoppedForGood'
  BY Parts, <1>2, <1>3, Members, NextMembers, Constants DEF PoppedForGood, UnpushedUnseen,
     RequestPhases, Adding, ServerKept, Task, NoTaskFields, IsServerStopped, ServerPhases
<1>10. StartsAreSeen'
  BY Parts, <1>2, <1>3, AboutMembers, NextAboutMembers, Constants DEF StartsAreSeen, About,
     ServerPhases, ServerKept, Task, NoTaskFields, IsServerStopped
<1>11. ServerPhases'
  BY Parts, <1>2, <1>3, Constants DEF ServerPhases, ServerKept, Task, NoTaskFields,
     IsServerStopped
<1>12. RunningClientsOwned'
  BY Parts, <1>2, <1>3, Members, NextMembers, AboutMembers, Constants DEF
     RunningClientsOwned, StartsAreSeen, About, ServerKept, Task, NoTaskFields,
     IsServerStopped, ServerPhases
<1>13. LostOutlive'
  BY Parts, <1>2, <1>3, Members, NextMembers, AboutMembers, Constants DEF LostOutlive,
     StartsAreSeen, RunningClientsOwned, ServerPhases, About, ServerKept, Task,
     NoTaskFields, IsServerStopped
<1>14. AloneCounts'
  BY Parts, <1>2, <1>3, SameCount, CountsAreNat, RequestFields, Constants DEF AloneCounts,
     StepBy, Starting, FlagsKept, ServerKept, Task, NoTaskFields, IsServerStopped,
     ServerPhases
<1>15. StartedOnce'
  BY Parts, <1>2, <1>3, Constants DEF StartedOnce, Starting, ServerPhases, RequestPhases,
     ServerKept, Task, NoTaskFields, IsServerStopped
<1> QED
  BY <1>4, <1>5, <1>6, <1>7, <1>8, <1>9, <1>10, <1>11, <1>12, <1>13, <1>14, <1>15 DEF
     HeadlessInv, PushedOnce

LEMMA StartDoneKeeps ==
  ASSUME HeadlessInv, StartDone, alone' = NoRequest
  PROVE  HeadlessInv'
<1>1. /\ worker.pc = "starting" /\ NoTaskFields(worker')
      /\ UNCHANGED <<server, stack, client, doubled, request, handler, raced, dropped,
                     Elements, Running>>
  BY Parts, StartDoneEffect
<1>2. TypeOK'
  BY Parts, <1>1, StartsTyped, Constants DEF TypeOK, StepBy, ServerKept, Task, NoTaskFields,
     IsServerStopped
<1>3. UnpushedUnseen'
  BY Parts, <1>1, Members, NextMembers, SeenTyped, Constants DEF UnpushedUnseen, OwnClients,
     RequestPhases, Adding, Starting, ServerKept, Task, NoTaskFields, IsServerStopped
<1>4. SeenAreMade'
  BY Parts, <1>1, Members, NextMembers, SeenTyped, Constants DEF SeenAreMade,
     UnpushedUnseen, RequestPhases, Adding, Starting, ServerKept, Task, NoTaskFields,
     IsServerStopped
<1>5. OwnClients'
  BY Parts, <1>1, Members, Constants DEF OwnClients, UnpushedUnseen, Adding, Starting,
     ServerKept, Task, NoTaskFields, IsServerStopped
<1>6. RequestPhases'
  BY Parts, <1>1, RequestFields, Constants DEF RequestPhases, Adding, Starting, ServerKept,
     Task, NoTaskFields, IsServerStopped
<1>7. PoppedForGood'
  BY Parts, <1>1, Members, NextMembers, Constants DEF PoppedForGood, UnpushedUnseen,
     RequestPhases, Adding, ServerKept, Task, NoTaskFields, IsServerStopped
<1>8. StartsAreSeen'
  BY Parts, <1>1, AboutMembers, NextAboutMembers, Constants DEF StartsAreSeen, About,
     ServerPhases, ServerKept, Task, NoTaskFields, IsServerStopped
<1>9. ServerPhases'
  BY Parts, <1>1, Constants DEF ServerPhases, ServerKept, Task, NoTaskFields,
     IsServerStopped
<1>10. RunningClientsOwned'
  BY Parts, <1>1, Members, NextMembers, AboutMembers, Constants DEF RunningClientsOwned,
     StartsAreSeen, About, ServerKept, Task, NoTaskFields, IsServerStopped
<1>11. LostOutlive'
  BY Parts, <1>1, Members, NextMembers, AboutMembers, Constants DEF LostOutlive,
     StartsAreSeen, RunningClientsOwned, ServerPhases, About, ServerKept, Task,
     NoTaskFields, IsServerStopped
<1>12. AloneCounts'
  BY Parts, <1>1, SameCount, CountsAreNat, RequestFields, Constants DEF AloneCounts, StepBy,
     Starting, FlagsKept, ServerKept, Task, NoTaskFields, IsServerStopped
<1>13. StartedOnce'
  BY Parts, <1>1, Constants DEF StartedOnce, Starting, ServerPhases, RequestPhases,
     ServerKept, Task, NoTaskFields, IsServerStopped
<1> QED
  BY <1>2, <1>3, <1>4, <1>5, <1>6, <1>7, <1>8, <1>9, <1>10, <1>11, <1>12, <1>13 DEF
     HeadlessInv, PushedOnce

LEMMA BeginShutdownKeeps ==
  ASSUME HeadlessInv, BeginShutdown, alone' = NoRequest
  PROVE  HeadlessInv'
<1>1. /\ worker.pc = "none"
      /\ \/ server.proc # "up" /\ Task(worker', "snapshot", {}, {}, NoClient)
         \/ server.proc = "up" /\ Task(worker', "process", {}, {}, NoClient)
      /\ UNCHANGED <<server, stack, client, doubled, request, handler, raced, dropped,
                     Elements, Running>>
  BY Parts, BeginShutdownEffect
<1>2. TypeOK'
  BY Parts, <1>1, StartsTyped, Constants DEF TypeOK, StepBy, ServerKept, Task, NoTaskFields,
     IsServerStopped
<1>3. UnpushedUnseen'
  BY Parts, <1>1, Members, NextMembers, SeenTyped, Constants DEF UnpushedUnseen, OwnClients,
     RequestPhases, Adding, Starting, ServerKept, Task, NoTaskFields, IsServerStopped
<1>4. SeenAreMade'
  BY Parts, <1>1, Members, NextMembers, SeenTyped, Constants DEF SeenAreMade,
     UnpushedUnseen, RequestPhases, Adding, Starting, ServerKept, Task, NoTaskFields,
     IsServerStopped
<1>5. OwnClients'
  BY Parts, <1>1, Members, Constants DEF OwnClients, UnpushedUnseen, Adding, Starting,
     ServerKept, Task, NoTaskFields, IsServerStopped
<1>6. RequestPhases'
  BY Parts, <1>1, RequestFields, Constants DEF RequestPhases, Adding, Starting, ServerKept,
     Task, NoTaskFields, IsServerStopped
<1>7. PoppedForGood'
  BY Parts, <1>1, Members, NextMembers, Constants DEF PoppedForGood, UnpushedUnseen,
     RequestPhases, Adding, ServerKept, Task, NoTaskFields, IsServerStopped
<1>8. StartsAreSeen'
  BY Parts, <1>1, AboutMembers, NextAboutMembers, Constants DEF StartsAreSeen, About,
     ServerPhases, ServerKept, Task, NoTaskFields, IsServerStopped
<1>9. ServerPhases'
  BY Parts, <1>1, Constants DEF ServerPhases, ServerKept, Task, NoTaskFields,
     IsServerStopped
<1>10. RunningClientsOwned'
  BY Parts, <1>1, Members, NextMembers, AboutMembers, Constants DEF RunningClientsOwned,
     StartsAreSeen, About, ServerKept, Task, NoTaskFields, IsServerStopped
<1>11. LostOutlive'
  BY Parts, <1>1, Members, NextMembers, AboutMembers, Constants DEF LostOutlive,
     StartsAreSeen, RunningClientsOwned, ServerPhases, About, ServerKept, Task,
     NoTaskFields, IsServerStopped
<1>12. AloneCounts'
  BY Parts, <1>1, SameCount, CountsAreNat, RequestFields, Constants DEF AloneCounts, StepBy,
     Starting, FlagsKept, ServerKept, Task, NoTaskFields, IsServerStopped
<1>13. StartedOnce'
  BY Parts, <1>1, Constants DEF StartedOnce, Starting, ServerPhases, RequestPhases,
     ServerKept, Task, NoTaskFields, IsServerStopped
<1> QED
  BY <1>2, <1>3, <1>4, <1>5, <1>6, <1>7, <1>8, <1>9, <1>10, <1>11, <1>12, <1>13 DEF
     HeadlessInv, PushedOnce

LEMMA ShutProcessKeeps ==
  ASSUME HeadlessInv, ShutProcess, alone' = NoRequest
  PROVE  HeadlessInv'
<1>1. /\ worker.pc = "process"
      /\ Task(worker', "snapshot", worker.todo, worker.wait, worker.cur)
      /\ \/ server.proc # "up" /\ UNCHANGED <<server, raced>>
         \/ server.proc = "up" /\ ProcessEnds
      /\ UNCHANGED <<stack, client, doubled, request, handler, dropped, Elements, Running>>
  BY Parts, ShutProcessEffect
<1>2. TypeOK'
  BY Parts, <1>1, ProcessEndsEffect, ServerSame, StartsTyped, Constants DEF TypeOK, StepBy,
     ServerKept, Task, NoTaskFields, IsServerStopped
<1>3. UnpushedUnseen'
  BY Parts, <1>1, ProcessEndsEffect, ServerSame, Members, NextMembers, SeenTyped, Constants
     DEF UnpushedUnseen, OwnClients, RequestPhases, Adding, Starting, ServerKept, Task,
     NoTaskFields, IsServerStopped
<1>4. SeenAreMade'
  BY Parts, <1>1, ProcessEndsEffect, ServerSame, Members, NextMembers, SeenTyped, Constants
     DEF SeenAreMade, UnpushedUnseen, RequestPhases, Adding, Starting, ServerKept, Task,
     NoTaskFields, IsServerStopped
<1>5. OwnClients'
  BY Parts, <1>1, ProcessEndsEffect, ServerSame, Members, Constants DEF OwnClients,
     UnpushedUnseen, Adding, Starting, ServerKept, Task, NoTaskFields, IsServerStopped
<1>6. RequestPhases'
  BY Parts, <1>1, ProcessEndsEffect, ServerSame, RequestFields, Constants DEF RequestPhases,
     Adding, Starting, ServerKept, Task, NoTaskFields, IsServerStopped
<1>7. PoppedForGood'
  BY Parts, <1>1, ProcessEndsEffect, ServerSame, Members, NextMembers, Constants DEF
     PoppedForGood, UnpushedUnseen, RequestPhases, Adding, ServerKept, Task, NoTaskFields,
     IsServerStopped
<1>8. StartsAreSeen'
  BY Parts, <1>1, ProcessEndsEffect, ServerSame, AboutMembers, NextAboutMembers, Constants
     DEF StartsAreSeen, About, ServerPhases, ServerKept, Task, NoTaskFields, IsServerStopped
<1>9. ServerPhases'
  BY Parts, <1>1, ProcessEndsEffect, ServerSame, Constants DEF ServerPhases, ServerKept,
     Task, NoTaskFields, IsServerStopped
<1>10. RunningClientsOwned'
  BY Parts, <1>1, ProcessEndsEffect, ServerSame, Members, NextMembers, AboutMembers,
     Constants DEF RunningClientsOwned, StartsAreSeen, About, ServerKept, Task,
     NoTaskFields, IsServerStopped
<1>11. LostOutlive'
  BY Parts, <1>1, ProcessEndsEffect, ServerSame, Members, NextMembers, AboutMembers,
     Constants DEF LostOutlive, StartsAreSeen, RunningClientsOwned, ServerPhases, About,
     ServerKept, Task, NoTaskFields, IsServerStopped
<1>12. AloneCounts'
  BY Parts, <1>1, ProcessEndsEffect, ServerSame, SameCount, CountsAreNat, RequestFields,
     Constants DEF AloneCounts, StepBy, Starting, FlagsKept, ServerKept, Task, NoTaskFields,
     IsServerStopped
<1>13. StartedOnce'
  BY Parts, <1>1, ProcessEndsEffect, ServerSame, Constants DEF StartedOnce, Starting,
     ServerPhases, RequestPhases, ServerKept, Task, NoTaskFields, IsServerStopped
<1> QED
  BY <1>2, <1>3, <1>4, <1>5, <1>6, <1>7, <1>8, <1>9, <1>10, <1>11, <1>12, <1>13 DEF
     HeadlessInv, PushedOnce

LEMMA WorkerClosingKeeps ==
  ASSUME HeadlessInv, Closing(worker, worker'), UNCHANGED <<stack, doubled, request,
         handler, raced, dropped>>, alone' = NoRequest
  PROVE  HeadlessInv'
<1>1. /\ ServerKept /\ server'.proc = server.proc
      /\ \/ /\ worker.pc = "snapshot" /\ client' = client
            /\ Task(worker', "clients", Elements, worker.wait, worker.cur)
         \/ /\ worker.pc = "clients" /\ client' = client
            /\ \E c \in worker.todo :
                 \/ /\ client[c] = "up"
                    /\ Task(worker', "clients", worker.todo \ {c}, worker.wait \cup {c}, worker.cur)
                 \/ /\ client[c] # "up"
                    /\ Task(worker', "clients", worker.todo \ {c}, worker.wait, worker.cur)
         \/ /\ worker.pc = "clients"
            /\ \E c \in worker.wait :
                 /\ client' = [client EXCEPT ![c] = "null"]
                 /\ Task(worker', "clients", worker.todo, worker.wait \ {c}, worker.cur)
         \/ /\ worker.pc = "clients" /\ worker.todo = {} /\ worker.wait = {}
            /\ client' = client /\ NoTaskFields(worker')
  BY Parts, ClosingEffect
<1>2. TypeOK'
  BY Parts, <1>1, ShutDownEffect, SameStack, SameClients, StartsTyped, Constants DEF TypeOK,
     StepBy, ServerKept, Task, NoTaskFields, IsServerStopped
<1>3. UnpushedUnseen'
  BY Parts, <1>1, ShutDownEffect, SameStack, SameClients, Members, NextMembers, SeenTyped,
     Constants DEF UnpushedUnseen, OwnClients, RequestPhases, Adding, Starting, ServerKept,
     Task, NoTaskFields, IsServerStopped
<1>4. SeenAreMade'
  BY Parts, <1>1, ShutDownEffect, SameStack, SameClients, Members, NextMembers, SeenTyped,
     Constants DEF SeenAreMade, UnpushedUnseen, RequestPhases, Adding, Starting, ServerKept,
     Task, NoTaskFields, IsServerStopped
<1>5. OwnClients'
  BY Parts, <1>1, ShutDownEffect, SameStack, SameClients, Members, Constants DEF OwnClients,
     UnpushedUnseen, Adding, Starting, ServerKept, Task, NoTaskFields, IsServerStopped
<1>6. RequestPhases'
  BY Parts, <1>1, ShutDownEffect, SameStack, SameClients, RequestFields, Constants DEF
     RequestPhases, Adding, Starting, ServerKept, Task, NoTaskFields, IsServerStopped
<1>7. PoppedForGood'
  BY Parts, <1>1, ShutDownEffect, SameStack, SameClients, Members, NextMembers, Constants
     DEF PoppedForGood, UnpushedUnseen, RequestPhases, Adding, ServerKept, Task,
     NoTaskFields, IsServerStopped
<1>8. StartsAreSeen'
  BY Parts, <1>1, ShutDownEffect, SameStack, SameClients, AboutMembers, NextAboutMembers,
     Constants DEF StartsAreSeen, About, ServerPhases, ServerKept, Task, NoTaskFields,
     IsServerStopped
<1>9. ServerPhases'
  BY Parts, <1>1, ShutDownEffect, SameStack, SameClients, Constants DEF ServerPhases,
     ServerKept, Task, NoTaskFields, IsServerStopped
<1>10. RunningClientsOwned'
  BY Parts, <1>1, ShutDownEffect, SameStack, SameClients, Members, NextMembers,
     AboutMembers, Constants DEF RunningClientsOwned, StartsAreSeen, About, ServerKept,
     Task, NoTaskFields, IsServerStopped
<1>11. LostOutlive'
  BY Parts, <1>1, ShutDownEffect, SameStack, SameClients, Members, NextMembers,
     AboutMembers, Constants DEF LostOutlive, StartsAreSeen, RunningClientsOwned,
     ServerPhases, About, ServerKept, Task, NoTaskFields, IsServerStopped
<1>12. AloneCounts'
  BY Parts, <1>1, ShutDownEffect, SameStack, SameClients, SameCount, CountsAreNat,
     RequestFields, Constants DEF AloneCounts, StepBy, Starting, FlagsKept, ServerKept,
     Task, NoTaskFields, IsServerStopped
<1>13. StartedOnce'
  BY Parts, <1>1, ShutDownEffect, SameStack, SameClients, Constants DEF StartedOnce,
     Starting, ServerPhases, RequestPhases, ServerKept, Task, NoTaskFields, IsServerStopped
<1> QED
  BY <1>2, <1>3, <1>4, <1>5, <1>6, <1>7, <1>8, <1>9, <1>10, <1>11, <1>12, <1>13 DEF
     HeadlessInv, PushedOnce

LEMMA RaiseExitedKeeps ==
  ASSUME HeadlessInv, RaiseExited, alone' = NoRequest
  PROVE  HeadlessInv'
<1>1. /\ server.proc = "down" /\ server.watched /\ handler.pc = "none"
      /\ server' \in ServerRecord /\ server'.proc = "down" /\ ~server'.watched
      /\ server'.started <=> server.started
      /\ Task(handler', "discover", {}, {}, NoClient)
      /\ UNCHANGED <<stack, client, doubled, request, worker, raced, dropped, Elements,
                     Running>>
  BY Parts, RaiseExitedEffect
<1>2. TypeOK'
  BY Parts, <1>1, StartsTyped, Constants DEF TypeOK, StepBy, ServerKept, Task, NoTaskFields,
     IsServerStopped
<1>3. UnpushedUnseen'
  BY Parts, <1>1, Members, NextMembers, SeenTyped, Constants DEF UnpushedUnseen, OwnClients,
     RequestPhases, Adding, Starting, ServerKept, Task, NoTaskFields, IsServerStopped
<1>4. SeenAreMade'
  BY Parts, <1>1, Members, NextMembers, SeenTyped, Constants DEF SeenAreMade,
     UnpushedUnseen, RequestPhases, Adding, Starting, ServerKept, Task, NoTaskFields,
     IsServerStopped
<1>5. OwnClients'
  BY Parts, <1>1, Members, Constants DEF OwnClients, UnpushedUnseen, Adding, Starting,
     ServerKept, Task, NoTaskFields, IsServerStopped
<1>6. RequestPhases'
  BY Parts, <1>1, RequestFields, Constants DEF RequestPhases, Adding, Starting, ServerKept,
     Task, NoTaskFields, IsServerStopped
<1>7. PoppedForGood'
  BY Parts, <1>1, Members, NextMembers, Constants DEF PoppedForGood, UnpushedUnseen,
     RequestPhases, Adding, ServerKept, Task, NoTaskFields, IsServerStopped
<1>8. StartsAreSeen'
  BY Parts, <1>1, AboutMembers, NextAboutMembers, Constants DEF StartsAreSeen, About,
     ServerPhases, ServerKept, Task, NoTaskFields, IsServerStopped
<1>9. ServerPhases'
  BY Parts, <1>1, Constants DEF ServerPhases, ServerKept, Task, NoTaskFields,
     IsServerStopped
<1>10. RunningClientsOwned'
  BY Parts, <1>1, Members, NextMembers, AboutMembers, Constants DEF RunningClientsOwned,
     StartsAreSeen, About, ServerKept, Task, NoTaskFields, IsServerStopped
<1>11. LostOutlive'
  BY Parts, <1>1, Members, NextMembers, AboutMembers, Constants DEF LostOutlive,
     StartsAreSeen, RunningClientsOwned, ServerPhases, About, ServerKept, Task,
     NoTaskFields, IsServerStopped
<1>12. AloneCounts'
  BY Parts, <1>1, SameCount, CountsAreNat, RequestFields, Constants DEF AloneCounts, StepBy,
     Starting, FlagsKept, ServerKept, Task, NoTaskFields, IsServerStopped
<1>13. StartedOnce'
  BY Parts, <1>1, Constants DEF StartedOnce, Starting, ServerPhases, RequestPhases,
     ServerKept, Task, NoTaskFields, IsServerStopped
<1> QED
  BY <1>2, <1>3, <1>4, <1>5, <1>6, <1>7, <1>8, <1>9, <1>10, <1>11, <1>12, <1>13 DEF
     HeadlessInv, PushedOnce

LEMMA CheckServerIsRestartingKeeps ==
  ASSUME HeadlessInv, CheckServerIsRestarting, alone' = NoRequest
  PROVE  HeadlessInv'
<1>1. /\ handler.pc = "discover" /\ server' \in ServerRecord
      /\ server'.started <=> server.started
      /\ \/ /\ server'.proc = "up" /\ server'.watched /\ NoTaskFields(handler')
         \/ /\ server' = server
            /\ Task(handler', "snapshot", handler.todo, handler.wait, handler.cur)
      /\ UNCHANGED <<stack, client, doubled, request, worker, raced, dropped, Elements,
                     Running>>
  BY Parts, CheckServerIsRestartingEffect
<1>2. TypeOK'
  BY Parts, <1>1, StartsTyped, Constants DEF TypeOK, StepBy, ServerKept, Task, NoTaskFields,
     IsServerStopped
<1>3. UnpushedUnseen'
  BY Parts, <1>1, Members, NextMembers, SeenTyped, Constants DEF UnpushedUnseen, OwnClients,
     RequestPhases, Adding, Starting, ServerKept, Task, NoTaskFields, IsServerStopped
<1>4. SeenAreMade'
  BY Parts, <1>1, Members, NextMembers, SeenTyped, Constants DEF SeenAreMade,
     UnpushedUnseen, RequestPhases, Adding, Starting, ServerKept, Task, NoTaskFields,
     IsServerStopped
<1>5. OwnClients'
  BY Parts, <1>1, Members, Constants DEF OwnClients, UnpushedUnseen, Adding, Starting,
     ServerKept, Task, NoTaskFields, IsServerStopped
<1>6. RequestPhases'
  BY Parts, <1>1, RequestFields, Constants DEF RequestPhases, Adding, Starting, ServerKept,
     Task, NoTaskFields, IsServerStopped
<1>7. PoppedForGood'
  BY Parts, <1>1, Members, NextMembers, Constants DEF PoppedForGood, UnpushedUnseen,
     RequestPhases, Adding, ServerKept, Task, NoTaskFields, IsServerStopped
<1>8. StartsAreSeen'
  BY Parts, <1>1, AboutMembers, NextAboutMembers, Constants DEF StartsAreSeen, About,
     ServerPhases, ServerKept, Task, NoTaskFields, IsServerStopped
<1>9. ServerPhases'
  BY Parts, <1>1, Constants DEF ServerPhases, ServerKept, Task, NoTaskFields,
     IsServerStopped
<1>10. RunningClientsOwned'
  BY Parts, <1>1, Members, NextMembers, AboutMembers, Constants DEF RunningClientsOwned,
     StartsAreSeen, About, ServerKept, Task, NoTaskFields, IsServerStopped
<1>11. LostOutlive'
  BY Parts, <1>1, Members, NextMembers, AboutMembers, Constants DEF LostOutlive,
     StartsAreSeen, RunningClientsOwned, ServerPhases, About, ServerKept, Task,
     NoTaskFields, IsServerStopped
<1>12. AloneCounts'
  BY Parts, <1>1, SameCount, CountsAreNat, RequestFields, Constants DEF AloneCounts, StepBy,
     Starting, FlagsKept, ServerKept, Task, NoTaskFields, IsServerStopped
<1>13. StartedOnce'
  BY Parts, <1>1, Constants DEF StartedOnce, Starting, ServerPhases, RequestPhases,
     ServerKept, Task, NoTaskFields, IsServerStopped
<1> QED
  BY <1>2, <1>3, <1>4, <1>5, <1>6, <1>7, <1>8, <1>9, <1>10, <1>11, <1>12, <1>13 DEF
     HeadlessInv, PushedOnce

LEMMA HandlerClosingKeeps ==
  ASSUME HeadlessInv, Closing(handler, handler'), UNCHANGED <<stack, doubled, request,
         worker, raced, dropped>>, alone' = NoRequest
  PROVE  HeadlessInv'
<1>1. /\ ServerKept /\ server'.proc = server.proc
      /\ \/ /\ handler.pc = "snapshot" /\ client' = client
            /\ Task(handler', "clients", Elements, handler.wait, handler.cur)
         \/ /\ handler.pc = "clients" /\ client' = client
            /\ \E c \in handler.todo :
                 \/ /\ client[c] = "up"
                    /\ Task(handler', "clients", handler.todo \ {c}, handler.wait \cup {c}, handler.cur)
                 \/ /\ client[c] # "up"
                    /\ Task(handler', "clients", handler.todo \ {c}, handler.wait, handler.cur)
         \/ /\ handler.pc = "clients"
            /\ \E c \in handler.wait :
                 /\ client' = [client EXCEPT ![c] = "null"]
                 /\ Task(handler', "clients", handler.todo, handler.wait \ {c}, handler.cur)
         \/ /\ handler.pc = "clients" /\ handler.todo = {} /\ handler.wait = {}
            /\ client' = client /\ NoTaskFields(handler')
  BY Parts, ClosingEffect
<1>2. TypeOK'
  BY Parts, <1>1, ShutDownEffect, SameStack, SameClients, StartsTyped, Constants DEF TypeOK,
     StepBy, ServerKept, Task, NoTaskFields, IsServerStopped
<1>3. UnpushedUnseen'
  BY Parts, <1>1, ShutDownEffect, SameStack, SameClients, Members, NextMembers, SeenTyped,
     Constants DEF UnpushedUnseen, OwnClients, RequestPhases, Adding, Starting, ServerKept,
     Task, NoTaskFields, IsServerStopped
<1>4. SeenAreMade'
  BY Parts, <1>1, ShutDownEffect, SameStack, SameClients, Members, NextMembers, SeenTyped,
     Constants DEF SeenAreMade, UnpushedUnseen, RequestPhases, Adding, Starting, ServerKept,
     Task, NoTaskFields, IsServerStopped
<1>5. OwnClients'
  BY Parts, <1>1, ShutDownEffect, SameStack, SameClients, Members, Constants DEF OwnClients,
     UnpushedUnseen, Adding, Starting, ServerKept, Task, NoTaskFields, IsServerStopped
<1>6. RequestPhases'
  BY Parts, <1>1, ShutDownEffect, SameStack, SameClients, RequestFields, Constants DEF
     RequestPhases, Adding, Starting, ServerKept, Task, NoTaskFields, IsServerStopped
<1>7. PoppedForGood'
  BY Parts, <1>1, ShutDownEffect, SameStack, SameClients, Members, NextMembers, Constants
     DEF PoppedForGood, UnpushedUnseen, RequestPhases, Adding, ServerKept, Task,
     NoTaskFields, IsServerStopped
<1>8. StartsAreSeen'
  BY Parts, <1>1, ShutDownEffect, SameStack, SameClients, AboutMembers, NextAboutMembers,
     Constants DEF StartsAreSeen, About, ServerPhases, ServerKept, Task, NoTaskFields,
     IsServerStopped
<1>9. ServerPhases'
  BY Parts, <1>1, ShutDownEffect, SameStack, SameClients, Constants DEF ServerPhases,
     ServerKept, Task, NoTaskFields, IsServerStopped
<1>10. RunningClientsOwned'
  BY Parts, <1>1, ShutDownEffect, SameStack, SameClients, Members, NextMembers,
     AboutMembers, Constants DEF RunningClientsOwned, StartsAreSeen, About, ServerKept,
     Task, NoTaskFields, IsServerStopped
<1>11. LostOutlive'
  BY Parts, <1>1, ShutDownEffect, SameStack, SameClients, Members, NextMembers,
     AboutMembers, Constants DEF LostOutlive, StartsAreSeen, RunningClientsOwned,
     ServerPhases, About, ServerKept, Task, NoTaskFields, IsServerStopped
<1>12. AloneCounts'
  BY Parts, <1>1, ShutDownEffect, SameStack, SameClients, SameCount, CountsAreNat,
     RequestFields, Constants DEF AloneCounts, StepBy, Starting, FlagsKept, ServerKept,
     Task, NoTaskFields, IsServerStopped
<1>13. StartedOnce'
  BY Parts, <1>1, ShutDownEffect, SameStack, SameClients, Constants DEF StartedOnce,
     Starting, ServerPhases, RequestPhases, ServerKept, Task, NoTaskFields, IsServerStopped
<1> QED
  BY <1>2, <1>3, <1>4, <1>5, <1>6, <1>7, <1>8, <1>9, <1>10, <1>11, <1>12, <1>13 DEF
     HeadlessInv, PushedOnce

LEMMA ServerExitsKeeps ==
  ASSUME HeadlessInv, ServerExits, alone' = NoRequest
  PROVE  HeadlessInv'
<1>1. /\ server.proc = "up" /\ ProcessEnds
      /\ UNCHANGED <<stack, client, doubled, request, worker, handler, dropped, Elements,
                     Running>>
  BY Parts, ServerExitsEffect
<1>2. TypeOK'
  BY Parts, <1>1, ProcessEndsEffect, StartsTyped, Constants DEF TypeOK, StepBy, ServerKept,
     Task, NoTaskFields, IsServerStopped
<1>3. UnpushedUnseen'
  BY Parts, <1>1, ProcessEndsEffect, Members, NextMembers, SeenTyped, Constants DEF
     UnpushedUnseen, OwnClients, RequestPhases, Adding, Starting, ServerKept, Task,
     NoTaskFields, IsServerStopped
<1>4. SeenAreMade'
  BY Parts, <1>1, ProcessEndsEffect, Members, NextMembers, SeenTyped, Constants DEF
     SeenAreMade, UnpushedUnseen, RequestPhases, Adding, Starting, ServerKept, Task,
     NoTaskFields, IsServerStopped
<1>5. OwnClients'
  BY Parts, <1>1, ProcessEndsEffect, Members, Constants DEF OwnClients, UnpushedUnseen,
     Adding, Starting, ServerKept, Task, NoTaskFields, IsServerStopped
<1>6. RequestPhases'
  BY Parts, <1>1, ProcessEndsEffect, RequestFields, Constants DEF RequestPhases, Adding,
     Starting, ServerKept, Task, NoTaskFields, IsServerStopped
<1>7. PoppedForGood'
  BY Parts, <1>1, ProcessEndsEffect, Members, NextMembers, Constants DEF PoppedForGood,
     UnpushedUnseen, RequestPhases, Adding, ServerKept, Task, NoTaskFields, IsServerStopped
<1>8. StartsAreSeen'
  BY Parts, <1>1, ProcessEndsEffect, AboutMembers, NextAboutMembers, Constants DEF
     StartsAreSeen, About, ServerPhases, ServerKept, Task, NoTaskFields, IsServerStopped
<1>9. ServerPhases'
  BY Parts, <1>1, ProcessEndsEffect, Constants DEF ServerPhases, ServerKept, Task,
     NoTaskFields, IsServerStopped
<1>10. RunningClientsOwned'
  BY Parts, <1>1, ProcessEndsEffect, Members, NextMembers, AboutMembers, Constants DEF
     RunningClientsOwned, StartsAreSeen, About, ServerKept, Task, NoTaskFields,
     IsServerStopped
<1>11. LostOutlive'
  BY Parts, <1>1, ProcessEndsEffect, Members, NextMembers, AboutMembers, Constants DEF
     LostOutlive, StartsAreSeen, RunningClientsOwned, ServerPhases, About, ServerKept, Task,
     NoTaskFields, IsServerStopped
<1>12. AloneCounts'
  BY Parts, <1>1, ProcessEndsEffect, SameCount, CountsAreNat, RequestFields, Constants DEF
     AloneCounts, StepBy, Starting, FlagsKept, ServerKept, Task, NoTaskFields,
     IsServerStopped
<1>13. StartedOnce'
  BY Parts, <1>1, ProcessEndsEffect, Constants DEF StartedOnce, Starting, ServerPhases,
     RequestPhases, ServerKept, Task, NoTaskFields, IsServerStopped
<1> QED
  BY <1>2, <1>3, <1>4, <1>5, <1>6, <1>7, <1>8, <1>9, <1>10, <1>11, <1>12, <1>13 DEF
     HeadlessInv, PushedOnce

LEMMA ClientExitsKeeps ==
  ASSUME HeadlessInv, NEW c \in Clients, ClientExits(c), alone' = NoRequest
  PROVE  HeadlessInv'
<1>1. /\ client[c] = "up" /\ client' \in [Clients -> ClientState] /\ client'[c] = "exited"
      /\ \A d \in Clients \ {c} : client'[d] = client[d]
      /\ Running' = Running \ {c}
      /\ UNCHANGED <<server, stack, doubled, request, worker, handler, raced, dropped,
                     Elements>>
  BY Parts, ClientExitsEffect
<1>2. TypeOK'
  BY Parts, <1>1, StartsTyped, Constants DEF TypeOK, StepBy, ServerKept, Task, NoTaskFields,
     IsServerStopped
<1>3. UnpushedUnseen'
  BY Parts, <1>1, Members, NextMembers, SeenTyped, Constants DEF UnpushedUnseen, OwnClients,
     RequestPhases, Adding, Starting, ServerKept, Task, NoTaskFields, IsServerStopped
<1>4. SeenAreMade'
  BY Parts, <1>1, Members, NextMembers, SeenTyped, Constants DEF SeenAreMade,
     UnpushedUnseen, RequestPhases, Adding, Starting, ServerKept, Task, NoTaskFields,
     IsServerStopped
<1>5. OwnClients'
  BY Parts, <1>1, Members, Constants DEF OwnClients, UnpushedUnseen, Adding, Starting,
     ServerKept, Task, NoTaskFields, IsServerStopped
<1>6. RequestPhases'
  BY Parts, <1>1, RequestFields, Constants DEF RequestPhases, Adding, Starting, ServerKept,
     Task, NoTaskFields, IsServerStopped
<1>7. PoppedForGood'
  BY Parts, <1>1, Members, NextMembers, Constants DEF PoppedForGood, UnpushedUnseen,
     RequestPhases, Adding, ServerKept, Task, NoTaskFields, IsServerStopped
<1>8. StartsAreSeen'
  BY Parts, <1>1, AboutMembers, NextAboutMembers, Constants DEF StartsAreSeen, About,
     ServerPhases, ServerKept, Task, NoTaskFields, IsServerStopped
<1>9. ServerPhases'
  BY Parts, <1>1, Constants DEF ServerPhases, ServerKept, Task, NoTaskFields,
     IsServerStopped
<1>10. RunningClientsOwned'
  BY Parts, <1>1, Members, NextMembers, AboutMembers, Constants DEF RunningClientsOwned,
     StartsAreSeen, About, ServerKept, Task, NoTaskFields, IsServerStopped
<1>11. LostOutlive'
  BY Parts, <1>1, Members, NextMembers, AboutMembers, Constants DEF LostOutlive,
     StartsAreSeen, RunningClientsOwned, ServerPhases, About, ServerKept, Task,
     NoTaskFields, IsServerStopped
<1>12. AloneCounts'
  BY Parts, <1>1, SameCount, CountsAreNat, RequestFields, Constants DEF AloneCounts, StepBy,
     Starting, FlagsKept, ServerKept, Task, NoTaskFields, IsServerStopped
<1>13. StartedOnce'
  BY Parts, <1>1, Constants DEF StartedOnce, Starting, ServerPhases, RequestPhases,
     ServerKept, Task, NoTaskFields, IsServerStopped
<1> QED
  BY <1>2, <1>3, <1>4, <1>5, <1>6, <1>7, <1>8, <1>9, <1>10, <1>11, <1>12, <1>13 DEF
     HeadlessInv, PushedOnce

LEMMA RequestStepKeeps ==
  ASSUME HeadlessInv, NEW r \in Requests,
         RequestStep(r) \/ \E n \in Counts : Begin(r, n)
  PROVE  HeadlessInv'
<1>1. CASE \E n \in Counts : Begin(r, n)
  BY <1>1, BeginKeeps
<1>2. CASE CountAgain(r) \/ Remove(r) \/ Pop(r)
  BY <1>2, CountAgainKeeps, RemoveKeeps, PopKeeps
<1>3. CASE \E c \in Clients : TestPopped(r, c) \/ ShutPopped(r, c)
  BY <1>3, TestPoppedKeeps, ShutPoppedKeeps
<1>4. CASE MeetNull(r) \/ Removed(r) \/ Create(r)
  BY <1>4, MeetNullKeeps, RemovedKeeps, CreateKeeps
<1>5. CASE \E c \in Clients : Push(r, c)
  BY <1>5, PushKeeps
<1>6. CASE CheckServer(r) \/ TestMine(r) \/ LaunchMine(r) \/ Added(r)
  BY <1>6, CheckServerKeeps, TestMineKeeps, LaunchMineKeeps, AddedKeeps
<1> QED
  BY <1>1, <1>2, <1>3, <1>4, <1>5, <1>6 DEF RequestStep

LEMMA OtherStepKeeps ==
  ASSUME HeadlessInv, alone' = NoRequest,
         WorkerStep \/ HandlerStep \/ ServerExits \/ \E c \in Clients : ClientExits(c)
  PROVE  HeadlessInv'
<1>1. CASE StartServer \/ SubscribeExit \/ \E c \in Clients : TestClientOfServer(c)
  BY <1>1, StartServerKeeps, SubscribeExitKeeps, TestClientOfServerKeeps
<1>2. CASE LaunchClientOfServer \/ StartDone \/ BeginShutdown \/ ShutProcess
  BY <1>2, LaunchClientOfServerKeeps, StartDoneKeeps, BeginShutdownKeeps, ShutProcessKeeps
<1>3. CASE /\ Closing(worker, worker')
           /\ UNCHANGED <<stack, doubled, request, handler, raced, dropped>>
  BY <1>3, WorkerClosingKeeps
<1>4. CASE RaiseExited \/ CheckServerIsRestarting
  BY <1>4, RaiseExitedKeeps, CheckServerIsRestartingKeeps
<1>5. CASE /\ Closing(handler, handler')
           /\ UNCHANGED <<stack, doubled, request, worker, raced, dropped>>
  BY <1>5, HandlerClosingKeeps
<1>6. CASE ServerExits \/ \E c \in Clients : ClientExits(c)
  BY <1>6, ServerExitsKeeps, ClientExitsKeeps
<1> QED
  BY <1>1, <1>2, <1>3, <1>4, <1>5, <1>6 DEF WorkerStep, HandlerStep

LEMMA StutteringKeeps ==
  ASSUME HeadlessInv, UNCHANGED vars
  PROVE  HeadlessInv'
<1>1. TypeOK'
  BY Parts DEF vars, TypeOK
<1>2. Elements' = Elements /\ Running' = Running /\ InHands' = InHands
  BY SameStack, SameClients DEF vars, InHands
<1>3. /\ UnpushedUnseen' /\ SeenAreMade' /\ OwnClients' /\ RequestPhases' /\ PoppedForGood'
      /\ StartsAreSeen' /\ ServerPhases' /\ RunningClientsOwned' /\ LostOutlive'
  BY <1>2, Parts DEF vars, UnpushedUnseen, SeenAreMade, OwnClients, RequestPhases,
     PoppedForGood, StartsAreSeen, ServerPhases, RunningClientsOwned, LostOutlive, Unpushed,
     Seen, Adding, Starting, AboutToStart
<1>4. AloneCounts' /\ StartedOnce'
  BY <1>2, Parts, SameCount DEF vars, AloneCounts, StillToDo, StartedOnce, Starting
<1> QED
  BY <1>1, <1>3, <1>4 DEF HeadlessInv, PushedOnce

\* An injective sequence over as many clients as it is long holds them all.
LEMMA FirstStack ==
  ASSUME NEW cs \in SUBSET Clients, NEW f \in [1 .. Cardinality(cs) -> cs], IsInjective(f)
  PROVE  f \in Seq(Clients) /\ Range(f) = cs
<1> DEFINE n == Cardinality(cs)
<1>1. IsFiniteSet(cs)
  BY Constants, FS_Subset
<1>2. n \in Nat /\ IsFiniteSet(1 .. n) /\ Cardinality(1 .. n) = n
  BY <1>1, FS_CardinalityType, FS_Interval
<1>3. f \in [1 .. n -> cs] /\ DOMAIN f = 1 .. n
  OBVIOUS
<1> HIDE DEF n
<1>4. f \in Injection(1 .. n, cs)
  BY <1>3 DEF Injection, IsInjective
<1>5. Cardinality(1 .. n) = Cardinality(cs)
  BY <1>2 DEF n
<1>6. f \in Surjection(1 .. n, cs)
  BY <1>1, <1>4, <1>5, FS_Injection
<1>7. Range(f) = cs
  BY <1>3, <1>6 DEF Surjection, Range
<1>8. f \in [1 .. n -> Clients]
  BY <1>3
<1> QED
  BY <1>2, <1>7, <1>8

LEMMA InitEstablishes == Init => HeadlessInv
<1> SUFFICES ASSUME Init PROVE HeadlessInv
  OBVIOUS
<1>1. PICK cs \in SUBSET Clients :
        /\ stack \in {f \in [1 .. Cardinality(cs) -> cs] : IsInjective(f)}
        /\ \/ /\ server = [proc |-> "none", watched |-> FALSE, started |-> FALSE,
                           registered |-> TRUE]
              /\ worker = [NoTask EXCEPT !.pc = "prepare"]
              /\ client = [c \in Clients |-> IF c \in cs THEN "made" ELSE "new"]
           \/ /\ server = [proc |-> "up", watched |-> TRUE, started |-> FALSE,
                           registered |-> TRUE]
              /\ worker = NoTask
              /\ client = [c \in Clients |-> IF c \in cs THEN "up" ELSE "new"]
  BY DEF Init
<1>2. stack \in Seq(Clients) /\ IsInjective(stack) /\ Elements = cs
  BY <1>1, FirstStack DEF Elements
<1>3. /\ doubled = {} /\ raced = {} /\ dropped = {} /\ alone = NoRequest
      /\ handler = NoTask /\ request \in [Requests -> RequestRecord]
      /\ \A r \in Requests : /\ request[r].pc = "idle" /\ request[r].todo = {}
                             /\ request[r].wait = {}
  BY Records DEF Init
<1>4. \/ /\ server \in ServerRecord /\ server.proc = "none"
         /\ ~server.watched /\ ~server.started
         /\ Task(worker, "prepare", {}, {}, NoClient)
         /\ client = [c \in Clients |-> IF c \in cs THEN "made" ELSE "new"]
      \/ /\ server \in ServerRecord /\ server.proc = "up"
         /\ server.watched /\ ~server.started
         /\ Task(worker, "none", {}, {}, NoClient)
         /\ client = [c \in Clients |-> IF c \in cs THEN "up" ELSE "new"]
  <2>1. CASE /\ server = [proc |-> "none", watched |-> FALSE, started |-> FALSE,
                          registered |-> TRUE]
             /\ worker = [NoTask EXCEPT !.pc = "prepare"]
             /\ client = [c \in Clients |-> IF c \in cs THEN "made" ELSE "new"]
    <3>1. server \in ServerRecord /\ server.proc = "none"
      BY <2>1 DEF ServerRecord
    <3>2. ~server.watched /\ ~server.started
      BY <2>1
    <3>3. Task(worker, "prepare", {}, {}, NoClient)
      BY <2>1 DEF Task, NoTask, TaskRecord
    <3> QED
      BY <2>1, <3>1, <3>2, <3>3
  <2>2. CASE /\ server = [proc |-> "up", watched |-> TRUE, started |-> FALSE,
                          registered |-> TRUE]
             /\ worker = NoTask
             /\ client = [c \in Clients |-> IF c \in cs THEN "up" ELSE "new"]
    <3>1. server \in ServerRecord /\ server.proc = "up"
      BY <2>2 DEF ServerRecord
    <3>2. server.watched /\ ~server.started
      BY <2>2
    <3> QED
      BY <2>2, <3>1, <3>2, NoTaskIs DEF NoTaskFields
  <2> QED
    BY <1>1, <2>1, <2>2
<1>5. client \in [Clients -> ClientState] /\ \A c \in cs : client[c] \in {"made", "up"}
  BY <1>4 DEF ClientState
<1>6. TypeOK
  BY <1>2, <1>3, <1>4, <1>5, NoTaskIs, Records DEF TypeOK, Task
<1>7. Unpushed = {} /\ InHands = {}
  BY <1>3, Members DEF Adding, Starting
<1>8. ASSUME NEW c \in Seen PROVE c \in cs \cup {NoClient}
  BY <1>2, <1>3, <1>4, <1>7, <1>8, Members, Records DEF Task, Starting
<1>9. UnpushedUnseen /\ SeenAreMade /\ PoppedForGood
  BY <1>5, <1>7, <1>8 DEF UnpushedUnseen, SeenAreMade, PoppedForGood
<1>10. OwnClients /\ RequestPhases
  BY <1>3 DEF OwnClients, RequestPhases, Adding, Starting
<1>11. StartsAreSeen
  BY <1>3, <1>4, AboutMembers DEF StartsAreSeen, About, Task
<1>12. Running \subseteq cs /\ (server.proc = "none" => Running = {})
  BY <1>4 DEF Running
<1>13. ServerPhases
  BY <1>3, <1>4, <1>12, Records DEF ServerPhases, Task
<1>14. RunningClientsOwned /\ LostOutlive
  BY <1>2, <1>4, <1>12 DEF RunningClientsOwned, LostOutlive
<1>15. AloneCounts /\ StartedOnce
  BY <1>3, Constants DEF AloneCounts, StartedOnce, Starting
<1> QED
  BY <1>6, <1>9, <1>10, <1>11, <1>13, <1>14, <1>15 DEF HeadlessInv, PushedOnce

(***************************************************************************)
(* The theorems.                                                           *)
(***************************************************************************)

\* The inductive invariant of the requests for headless clients: where a client
\* object is, what the threads that hold it may still do with it, and how many
\* clients an undisturbed request has still to stop or to start.
THEOREM HeadlessInvariant == Spec => []HeadlessInv
<1>1. Init => HeadlessInv
  BY InitEstablishes
<1>2. HeadlessInv /\ [Next]_vars => HeadlessInv'
  <2> SUFFICES ASSUME HeadlessInv, [Next]_vars PROVE HeadlessInv'
    OBVIOUS
  <2>1. CASE \E r \in Requests : RequestStep(r) \/ \E n \in Counts : Begin(r, n)
    BY <2>1, RequestStepKeeps
  <2>2. CASE /\ WorkerStep \/ HandlerStep \/ ServerExits \/ \E c \in Clients : ClientExits(c)
             /\ alone' = NoRequest
    BY <2>2, OtherStepKeeps
  <2>3. CASE UNCHANGED vars
    BY <2>3, StutteringKeeps
  <2> QED
    BY <2>1, <2>2, <2>3 DEF Next
<1> QED
  BY <1>1, <1>2, PTL DEF Spec

\* Type correctness; in particular no client object is twice in the
\* ConcurrentStack of its server.
THEOREM HeadlessTypeCorrect == Spec => []TypeOK
<1>1. HeadlessInv => TypeOK
  BY DEF HeadlessInv
<1> QED
  BY <1>1, HeadlessInvariant, PTL

\* DedicatedServer keeps hold of its running headless clients: each is in
\* _headlessProcesses or in the hands of a request that will stop it, unless it was
\* popped while another thread was about to start it or a removal has thrown.
THEOREM RunningClientsAreOwned == Spec => []RunningClientsOwned
<1>1. HeadlessInv => RunningClientsOwned
  BY DEF HeadlessInv
<1> QED
  BY <1>1, HeadlessInvariant, PTL

\* OnServerProcessShutdown and Shutdown leave no client running behind a server
\* that has left the registry, but those lost before and those that a thread had
\* already decided to start when the server process exited.
THEOREM OnlyRacingStartsSurvive == Spec => []OnlyRacingStartsOutlive
<1>1. HeadlessInv => OnlyRacingStartsOutlive
  BY DEF HeadlessInv, ServerPhases, LostOutlive, OnlyRacingStartsOutlive, IsServerStopped
<1> QED
  BY <1>1, HeadlessInvariant, PTL

\* A SetHeadlessClients that nobody disturbs and that succeeds leaves a running
\* server with the number of clients asked for.
THEOREM UndisturbedRequestsCount == Spec => []SuccessAloneSetsCount
<1>1. HeadlessInv => SuccessAloneSetsCount
  <2> SUFFICES ASSUME HeadlessInv, NEW r \in Requests, Succeeds(r), alone = r,
                      server.proc = "up"
               PROVE  Cardinality(Elements \cap Running) = request[r].desired
    BY DEF SuccessAloneSetsCount
  <2>1. StillToDo(r) /\ Cardinality({}) = 0
    BY Parts, FS_EmptySet DEF AloneCounts
  <2>2. HeadlessClientsConnected \in Nat /\ request[r].desired \in Nat
    BY Parts, CountsAreNat, RequestFields
  <2>3. HeadlessClientsConnected = request[r].desired
    <3>1. CASE request[r].pc = "close"
      <4>1. request[r].todo \ Running = {}
        BY DEF Succeeds
      <4> QED
        BY <2>1, <2>2, <3>1, <4>1 DEF StillToDo, Succeeds
    <3>2. CASE request[r].pc = "add"
      BY <2>1, <2>2, <3>2 DEF StillToDo, Succeeds
    <3> QED
      BY <3>1, <3>2 DEF Succeeds
  <2> QED
    BY <2>3 DEF HeadlessClientsConnected
<1> QED
  BY <1>1, HeadlessInvariant, PTL

\* Requests alone never start the process of one client object twice.
THEOREM RequestsStartClientsOnce == Spec => []RequestsStartOnce
<1>1. HeadlessInv => RequestsStartOnce
  BY DEF HeadlessInv, StartedOnce, RequestsStartOnce
<1> QED
  BY <1>1, HeadlessInvariant, PTL
=============================================================================
