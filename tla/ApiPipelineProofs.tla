------------------------- MODULE ApiPipelineProofs -------------------------
(***************************************************************************)
(* Safety of ApiPipeline for every set of requests, addresses and users,   *)
(* every rate and burst, and a clock that runs as far as it likes.  A      *)
(* token that was taken is accounted for: its request is on its way, or    *)
(* has reached a handler, or was turned away after paying.                 *)
(***************************************************************************)
EXTENDS ApiPipeline, FiniteSetTheorems, TLAPS

-----------------------------------------------------------------------------
(* Arithmetic                                                              *)

LEMMA MinOfTwo ==
  ASSUME NEW a \in Nat, NEW b \in Nat
  PROVE  Min({a, b}) \in Nat /\ Min({a, b}) <= a /\ Min({a, b}) <= b
<1>1. \E x \in {a, b} : \A y \in {a, b} : x <= y
  OBVIOUS
<1>2. Min({a, b}) \in {a, b} /\ \A y \in {a, b} : Min({a, b}) <= y
  BY <1>1, Zenon DEF Min
<1> QED BY <1>2

LEMMA ProductGrows ==
  ASSUME NEW m \in Nat, NEW n \in Nat, NEW u \in Nat, m <= n
  PROVE  m * u <= n * u /\ m * u \in Nat /\ n * u \in Nat
<1>1. PICK d \in Nat : n = m + d
  <2>1. n - m \in Nat /\ n = m + (n - m)
    OBVIOUS
  <2> QED BY <2>1
<1>2. n * u = m * u + d * u
  BY <1>1
<1>3. m * u \in Nat /\ d * u \in Nat
  OBVIOUS
<1> QED BY <1>2, <1>3

-----------------------------------------------------------------------------
(* Requests on their way                                                   *)

\* A set that loses a member shrinks by one, one that gains one grows by one.
LEMMA Counting ==
  ASSUME NEW A \in SUBSET Requests, NEW B \in SUBSET Requests, NEW r \in Requests
  PROVE  /\ Cardinality(A) \in Nat /\ Cardinality(B) \in Nat
         /\ B \subseteq A => Cardinality(B) <= Cardinality(A)
         /\ B \subseteq A \cup {r} => Cardinality(B) <= Cardinality(A) + 1
         /\ B \subseteq A \ {r} /\ r \in A => Cardinality(B) + 1 <= Cardinality(A)
<1>1. IsFiniteSet(A) /\ IsFiniteSet(B)
  BY PipelineConstants, FS_Subset
<1>2. Cardinality(A) \in Nat /\ Cardinality(B) \in Nat
  BY <1>1, FS_CardinalityType
<1>3. B \subseteq A => Cardinality(B) <= Cardinality(A)
  BY <1>1, FS_Subset
<1>4. ASSUME B \subseteq A \cup {r} PROVE Cardinality(B) <= Cardinality(A) + 1
  <2>1. IsFiniteSet(A \cup {r}) /\ Cardinality(A \cup {r}) <= Cardinality(A) + 1
    <3>1. CASE r \in A
      <4>1. A \cup {r} = A
        BY <3>1
      <4> QED BY <4>1, <1>1, <1>2
    <3>2. CASE r \notin A
      <4>1. IsFiniteSet(A \cup {r})
            /\ Cardinality(A \cup {r}) = IF r \in A THEN Cardinality(A) ELSE Cardinality(A) + 1
        BY <1>1, FS_AddElement, Zenon
      <4> QED BY <3>2, <4>1, <1>2
    <3> QED BY <3>1, <3>2
  <2>2. Cardinality(B) <= Cardinality(A \cup {r}) /\ Cardinality(A \cup {r}) \in Nat
    BY <1>4, <2>1, FS_Subset, FS_CardinalityType
  <2> QED BY <1>2, <2>1, <2>2
<1>5. ASSUME B \subseteq A \ {r}, r \in A PROVE Cardinality(B) + 1 <= Cardinality(A)
  <2>1. IsFiniteSet(A \ {r}) /\ Cardinality(A \ {r}) = Cardinality(A) - 1
    BY <1>1, <1>5, FS_RemoveElement
  <2>2. Cardinality(B) <= Cardinality(A \ {r}) /\ Cardinality(A \ {r}) \in Nat
    BY <1>5, <2>1, FS_Subset, FS_CardinalityType
  <2> QED BY <1>2, <2>1, <2>2
<1> QED BY <1>2, <1>3, <1>4, <1>5

(* The inductive invariant                                                 *)

\* A request that has gone beyond a policy, as far as the chain goes.
Past(p) ==
  CASE p = "global"  -> {"ip", "auth_ip", "auth", "user", "handler"}
    [] p = "ip"      -> {"auth_ip", "auth", "user", "handler"}
    [] p = "auth_ip" -> {"auth", "user", "handler"}
    [] p = "user"    -> {"handler"}

HasPaid(r, k) ==
  /\ req[r].pc \in Past(k[1])
  /\ k = KeyOf(k[1], r)
  /\ k[1] = "user" => req[r].route = "me"

Holders(k)   == {r \in Requests : HasPaid(r, k)}

\* The requests that one limiter has charged and the next has not yet: between
\* ip and auth_ip, auth_ip and user, global and ip.
AtAuthIP(c) ==
  {r \in Requests : /\ req[r].client = c
                    /\ \/ req[r].pc = "ip" /\ req[r].paid
                       \/ req[r].pc = "auth_ip" /\ ~req[r].paid}
AtUser ==
  {r \in Requests : \/ req[r].pc = "auth_ip" /\ req[r].paid
                    \/ req[r].pc = "auth"
                    \/ req[r].pc = "user" /\ ~req[r].paid}
AtIP ==
  {r \in Requests : \/ req[r].pc = "global" /\ req[r].paid
                    \/ req[r].pc = "ip" /\ ~req[r].paid}

Addressed ==
  \A r \in Requests :
    /\ req[r].pc # "idle" => req[r].client \in Clients
    /\ req[r].paid => req[r].pc \in Policies
    /\ req[r].pc \in {"auth", "user"} => req[r].route = "me"
    /\ req[r].pc = "user" \/ (req[r].pc = "handler" /\ req[r].route = "me")
         => req[r].user \in Users

Drawn ==
  \A k \in Keys : charged[k] * Unit + level[k] <= Capacity(k) + Rate[k[1]] * now

Paid ==
  ~failOpen => \A k \in Keys : served[k] + Cardinality(Holders(k)) <= charged[k]

InOrder ==
  ~failOpen =>
    /\ \A c \in Clients :
         payers[<<"auth_ip", c>>] + Cardinality(AtAuthIP(c)) <= payers[<<"ip", c>>]
    /\ total["user"] + Cardinality(AtUser) <= total["auth_ip"]
    /\ total["ip"] + Cardinality(AtIP) <= total["global"]

Inv == TypeOK /\ Addressed /\ Drawn /\ Paid /\ InOrder /\ FailOpenStaysAvailable

-----------------------------------------------------------------------------
(* The buckets                                                             *)

LEMMA KeyTypes ==
  /\ \A k \in Keys : /\ k[1] \in Policies /\ Capacity(k) \in Nat /\ Rate[k[1]] \in Nat
                     /\ k = <<k[1], k[2]>>
  /\ \A c \in Clients : <<"ip", c>> \in Keys /\ <<"auth_ip", c>> \in Keys
  /\ \A u \in Users : <<"user", u>> \in Keys
  /\ <<"global", "operation-api">> \in Keys
<1>1. ASSUME NEW k \in Keys
      PROVE  k[1] \in Policies /\ k = <<k[1], k[2]>>
  BY DEF Keys, Policies
<1>2. ASSUME NEW p \in Policies
      PROVE  Rate[p] \in Nat /\ Burst[p] * Unit \in Nat
  <2>1. Rate[p] \in Nat /\ Burst[p] \in Nat /\ Unit \in Nat
    BY PipelineConstants
  <2> QED BY <2>1
<1> QED BY <1>1, <1>2 DEF Capacity, Keys

\* A charge takes a token of one bucket, and of the policy of that bucket.
LEMMA ChargeFacts ==
  ASSUME TypeOK, Drawn, NEW r \in Requests, NEW k0 \in Keys, Charge(r, k0), now' = now
  PROVE  /\ level' \in [Keys -> Nat] /\ \A k \in Keys : level'[k] <= Capacity(k)
         /\ charged' \in [Keys -> Nat]
         /\ payers' \in [Keys -> Nat] /\ total' \in [Policies -> Nat]
         /\ charged'[k0] = charged[k0] + 1
         /\ \A k \in Keys : k # k0 => charged'[k] = charged[k]
         /\ \A k \in Keys : payers'[k] = IF k = k0 /\ ~req[r].paid THEN payers[k] + 1
                                                                   ELSE payers[k]
         /\ \A p \in Policies : total'[p] = IF p = k0[1] /\ ~req[r].paid THEN total[p] + 1
                                                                         ELSE total[p]
         /\ Drawn'
<1>1. Unit \in Nat /\ \A k \in Keys : level[k] \in Nat /\ charged[k] \in Nat
  BY PipelineConstants DEF TypeOK
<1>2. level' = [level EXCEPT ![k0] = level[k0] - Unit] /\ level[k0] - Unit \in Nat
  BY <1>1 DEF Charge
<1>3. level' \in [Keys -> Nat] /\ \A k \in Keys : level'[k] <= Capacity(k)
  BY <1>1, <1>2, KeyTypes DEF TypeOK
<1>4. charged' \in [Keys -> Nat] /\ charged'[k0] = charged[k0] + 1
      /\ \A k \in Keys : k # k0 => charged'[k] = charged[k]
  BY <1>1 DEF Charge, TypeOK
<1>5. /\ payers' \in [Keys -> Nat] /\ total' \in [Policies -> Nat]
      /\ \A k \in Keys : payers'[k] = IF k = k0 /\ ~req[r].paid THEN payers[k] + 1
                                                                ELSE payers[k]
      /\ \A p \in Policies : total'[p] = IF p = k0[1] /\ ~req[r].paid THEN total[p] + 1
                                                                      ELSE total[p]
  <2>1. payers \in [Keys -> Nat] /\ total \in [Policies -> Nat] /\ k0[1] \in Policies
    BY KeyTypes DEF TypeOK
  <2>2. CASE req[r].paid
    BY <2>1, <2>2 DEF Charge, Account
  <2>3. CASE ~req[r].paid
    BY <2>1, <2>3 DEF Charge, Account
  <2> QED BY <2>2, <2>3
<1>6. Drawn'
  <2> SUFFICES ASSUME NEW k \in Keys
               PROVE  charged'[k] * Unit + level'[k] <= Capacity(k) + Rate[k[1]] * now
    BY DEF Drawn, Capacity
  <2>1. charged[k] * Unit + level[k] <= Capacity(k) + Rate[k[1]] * now
    BY DEF Drawn
  <2>2. CASE k = k0
    <3>1. charged'[k] = charged[k] + 1 /\ level'[k] = level[k] - Unit
      BY <1>2, <1>4, <2>2 DEF TypeOK
    <3>2. (charged[k] + 1) * Unit = charged[k] * Unit + Unit
      BY <1>1
    <3>3. charged[k] * Unit \in Nat /\ Capacity(k) \in Nat /\ Rate[k[1]] * now \in Nat
      <4>1. Rate[k[1]] \in Nat /\ now \in Nat /\ Capacity(k) \in Nat
        BY KeyTypes DEF TypeOK
      <4>2. Rate[k[1]] * now \in Nat
        BY <4>1
      <4> QED BY <1>1, <4>1, <4>2
    <3> QED BY <1>1, <2>1, <3>1, <3>2, <3>3
  <2>3. CASE k # k0
    BY <1>2, <1>4, <2>1, <2>3 DEF TypeOK
  <2> QED BY <2>2, <2>3
<1> QED BY <1>3, <1>4, <1>5, <1>6

-----------------------------------------------------------------------------
(* The requests                                                            *)

\* What becomes of a number of requests when only r moves.
Change(A, B, r) ==
  /\ Cardinality(A) \in Nat /\ Cardinality(B) \in Nat
  /\ Cardinality(B) <= Cardinality(A) + 1
  /\ (r \in B => r \in A) => Cardinality(B) <= Cardinality(A)
  /\ (r \in A /\ r \notin B) => Cardinality(B) + 1 <= Cardinality(A)

LEMMA Counts ==
  ASSUME NEW r \in Requests, \A s \in Requests : s # r => req'[s] = req[s]
  PROVE  /\ \A k \in Keys : Change(Holders(k), Holders(k)', r)
         /\ \A c \in Clients : Change(AtAuthIP(c), AtAuthIP(c)', r)
         /\ Change(AtUser, AtUser', r)
         /\ Change(AtIP, AtIP', r)
<1>1. ASSUME NEW A \in SUBSET Requests, NEW B \in SUBSET Requests,
             \A s \in Requests : s # r => (s \in B <=> s \in A)
      PROVE  Change(A, B, r)
  <2>1. B \subseteq A \cup {r}
    BY <1>1
  <2>2. (r \in B => r \in A) => B \subseteq A
    BY <1>1
  <2>3. r \in A /\ r \notin B => B \subseteq A \ {r}
    BY <1>1
  <2> QED BY <2>1, <2>2, <2>3, Counting DEF Change
<1>2. ASSUME NEW k \in Keys PROVE Change(Holders(k), Holders(k)', r)
  <2>1. ASSUME NEW s \in Requests, s # r PROVE HasPaid(s, k)' <=> HasPaid(s, k)
    <3>1. req'[s] = req[s]
      BY <2>1
    <3> QED BY <3>1 DEF HasPaid, KeyOf, Past
  <2>2. \A s \in Requests : s # r => (s \in Holders(k)' <=> s \in Holders(k))
    BY <2>1 DEF Holders
  <2>3. Holders(k) \in SUBSET Requests /\ Holders(k)' \in SUBSET Requests
    BY DEF Holders
  <2> QED BY <1>1, <2>2, <2>3
<1>3. ASSUME NEW c \in Clients PROVE Change(AtAuthIP(c), AtAuthIP(c)', r)
  <2>1. AtAuthIP(c) \in SUBSET Requests /\ AtAuthIP(c)' \in SUBSET Requests
        /\ \A s \in Requests : s # r => (s \in AtAuthIP(c)' <=> s \in AtAuthIP(c))
    BY DEF AtAuthIP
  <2> QED BY <1>1, <2>1
<1>4. Change(AtUser, AtUser', r)
  <2>1. AtUser \in SUBSET Requests /\ AtUser' \in SUBSET Requests
        /\ \A s \in Requests : s # r => (s \in AtUser' <=> s \in AtUser)
    BY DEF AtUser
  <2> QED BY <1>1, <2>1
<1>5. Change(AtIP, AtIP', r)
  <2>1. AtIP \in SUBSET Requests /\ AtIP' \in SUBSET Requests
        /\ \A s \in Requests : s # r => (s \in AtIP' <=> s \in AtIP)
    BY DEF AtIP
  <2> QED BY <1>1, <2>1
<1> QED BY <1>2, <1>3, <1>4, <1>5

\* A step of one request that takes no token and serves nobody: it keeps the
\* invariant when the request does not come to hold what it has not paid for.
LEMMA FreeStep ==
  ASSUME Inv, NEW r \in Requests,
         UNCHANGED <<now, failOpen, buckets, served>>, arrived' \in 0 .. MaxRequests,
         req' \in [Requests -> Request],
         \A s \in Requests : s # r => req'[s] = req[s],
         Addressed', FailOpenStaysAvailable',
         ~failOpen => /\ \A k \in Keys : HasPaid(r, k)' => HasPaid(r, k)
                      /\ \A c \in Clients : r \in AtAuthIP(c)' => r \in AtAuthIP(c)
                      /\ r \in AtUser' => r \in AtUser
                      /\ r \in AtIP' => r \in AtIP
  PROVE  Inv'
<1>1. TypeOK'
  BY DEF Inv, TypeOK, buckets, Capacity
<1>2. Drawn'
  BY DEF Inv, Drawn, buckets, Capacity
<1>3. Paid'
  <2> SUFFICES ASSUME ~failOpen, NEW k \in Keys
               PROVE  served[k] + Cardinality(Holders(k)') <= charged[k]
    BY DEF Paid, buckets
  <2>1. Change(Holders(k), Holders(k)', r) /\ (r \in Holders(k)' => r \in Holders(k))
    BY Counts DEF Holders
  <2>2. served[k] \in Nat /\ charged[k] \in Nat
        /\ served[k] + Cardinality(Holders(k)) <= charged[k]
    BY DEF Inv, TypeOK, Paid
  <2> QED BY <2>1, <2>2 DEF Change
<1>4. InOrder'
  <2> SUFFICES ASSUME ~failOpen
               PROVE  /\ \A c \in Clients : payers[<<"auth_ip", c>>]
                           + Cardinality(AtAuthIP(c)') <= payers[<<"ip", c>>]
                      /\ total["user"] + Cardinality(AtUser') <= total["auth_ip"]
                      /\ total["ip"] + Cardinality(AtIP') <= total["global"]
    BY DEF InOrder, buckets
  <2>1. ASSUME NEW c \in Clients
        PROVE  payers[<<"auth_ip", c>>] + Cardinality(AtAuthIP(c)') <= payers[<<"ip", c>>]
    <3>1. Change(AtAuthIP(c), AtAuthIP(c)', r) /\ (r \in AtAuthIP(c)' => r \in AtAuthIP(c))
      BY Counts
    <3>2. payers[<<"auth_ip", c>>] \in Nat /\ payers[<<"ip", c>>] \in Nat
          /\ payers[<<"auth_ip", c>>] + Cardinality(AtAuthIP(c)) <= payers[<<"ip", c>>]
      BY KeyTypes DEF Inv, TypeOK, InOrder
    <3> QED BY <3>1, <3>2 DEF Change
  <2>2. \A p \in Policies : total[p] \in Nat
    BY DEF Inv, TypeOK
  <2>3. Change(AtUser, AtUser', r) /\ Change(AtIP, AtIP', r)
        /\ (r \in AtUser' => r \in AtUser) /\ (r \in AtIP' => r \in AtIP)
    BY Counts
  <2>4. total["user"] + Cardinality(AtUser) <= total["auth_ip"]
        /\ total["ip"] + Cardinality(AtIP) <= total["global"]
    BY DEF Inv, InOrder
  <2> QED BY <2>1, <2>2, <2>3, <2>4 DEF Change, Policies
<1> QED BY <1>1, <1>2, <1>3, <1>4 DEF Inv

-----------------------------------------------------------------------------
(* The steps                                                               *)

LEMMA ArriveStep ==
  ASSUME Inv, NEW r \in Requests, NEW route \in Routes, NEW c \in Clients,
         Arrive(r, route, c)
  PROVE  Inv'
<1>1. req[r] \in Request /\ req[r].pc = "idle" /\ arrived' \in 0 .. MaxRequests /\ ~req[r].paid
  BY PipelineConstants DEF Arrive, Inv, TypeOK, Addressed, Policies
<1>2. /\ req' \in [Requests -> Request]
      /\ \A s \in Requests : s # r => req'[s] = req[s]
      /\ req'[r].pc = "global" /\ req'[r].client = c /\ req'[r].status = req[r].status
      /\ ~req'[r].paid
  BY <1>1 DEF Arrive, Inv, TypeOK, Request, Policies
<1>3. Addressed' /\ FailOpenStaysAvailable'
  BY <1>1, <1>2 DEF Arrive, Inv, Addressed, FailOpenStaysAvailable
<1>4. \A k \in Keys : ~HasPaid(r, k)'
  BY <1>2, KeyTypes DEF HasPaid, Past, Policies
<1>5. (\A d \in Clients : r \notin AtAuthIP(d)') /\ r \notin AtUser' /\ r \notin AtIP'
  BY <1>2 DEF AtAuthIP, AtUser, AtIP
<1> QED BY <1>1, <1>2, <1>3, <1>4, <1>5, FreeStep DEF Arrive

LEMMA AuthStep ==
  ASSUME Inv, NEW r \in Requests, Auth(r)
  PROVE  Inv'
<1>1. req[r] \in Request /\ req[r].pc = "auth" /\ req[r].route = "me"
      /\ req[r].client \in Clients /\ ~req[r].paid
  BY DEF Auth, Inv, TypeOK, Addressed, Policies
<1>2. /\ req' \in [Requests -> Request]
      /\ \A s \in Requests : s # r => req'[s] = req[s]
      /\ req'[r].client = req[r].client /\ req'[r].route = "me" /\ ~req'[r].paid
      /\ req'[r].status \in {req[r].status, "401"}
      /\ req'[r].pc = "done" \/ (req'[r].pc = "user" /\ req'[r].user \in Users)
  BY <1>1 DEF Auth, After, Finish, Send, Inv, TypeOK, Request, Policies
<1>3. Addressed' /\ FailOpenStaysAvailable'
  BY <1>1, <1>2 DEF Auth, Inv, Addressed, FailOpenStaysAvailable
<1>4. \A k \in Keys : HasPaid(r, k)' => HasPaid(r, k)
  BY <1>1, <1>2, KeyTypes DEF HasPaid, Past, KeyOf, Policies
<1>5. /\ \A d \in Clients : r \notin AtAuthIP(d)'
      /\ r \in AtUser /\ r \notin AtIP'
  BY <1>1, <1>2 DEF AtAuthIP, AtUser, AtIP
<1>6. arrived' \in 0 .. MaxRequests
  BY DEF Auth, Inv, TypeOK
<1> QED BY <1>2, <1>3, <1>4, <1>5, <1>6, FreeStep DEF Auth

LEMMA TimeoutStep ==
  ASSUME Inv, NEW r \in Requests, Timeout(r)
  PROVE  Inv'
<1>1. req[r] \in Request
  BY DEF Inv, TypeOK
<1>2. /\ req' \in [Requests -> Request]
      /\ \A s \in Requests : s # r => req'[s] = req[s]
      /\ req'[r].status = "504" /\ req'[r].paid = req[r].paid
      /\ req'[r].pc = req[r].pc /\ req'[r].route = req[r].route
      /\ req'[r].client = req[r].client /\ req'[r].user = req[r].user
  BY <1>1 DEF Timeout, Inv, TypeOK, Request
<1>3. Addressed' /\ FailOpenStaysAvailable'
  BY <1>2 DEF Timeout, Inv, Addressed, FailOpenStaysAvailable
<1>4. \A k \in Keys : HasPaid(r, k)' => HasPaid(r, k)
  BY <1>2 DEF HasPaid, KeyOf, Past
<1>5. /\ \A d \in Clients : r \in AtAuthIP(d)' => r \in AtAuthIP(d)
      /\ (r \in AtUser' => r \in AtUser) /\ (r \in AtIP' => r \in AtIP)
  BY <1>2 DEF AtAuthIP, AtUser, AtIP
<1>6. arrived' \in 0 .. MaxRequests
  BY DEF Timeout, Inv, TypeOK
<1> QED BY <1>2, <1>3, <1>4, <1>5, <1>6, FreeStep DEF Timeout

LEMMA ReturnStep ==
  ASSUME Inv, NEW r \in Requests, Return(r)
  PROVE  Inv'
<1>1. /\ req' \in [Requests -> Request]
      /\ \A s \in Requests : s # r => req'[s] = req[s]
      /\ req'[r].pc = "idle" /\ req'[r].status = "none" /\ ~req'[r].paid
  BY DEF Return, Idle, Inv, TypeOK, Request, Routes
<1>2. Addressed' /\ FailOpenStaysAvailable'
  BY <1>1 DEF Return, Inv, Addressed, FailOpenStaysAvailable
<1>3. \A k \in Keys : ~HasPaid(r, k)'
  BY <1>1, KeyTypes DEF HasPaid, Past, Policies
<1>4. (\A d \in Clients : r \notin AtAuthIP(d)') /\ r \notin AtUser' /\ r \notin AtIP'
  BY <1>1 DEF AtAuthIP, AtUser, AtIP
<1>5. arrived' \in 0 .. MaxRequests
  BY DEF Return, Inv, TypeOK
<1> QED BY <1>1, <1>2, <1>3, <1>4, <1>5, FreeStep DEF Return

LEMMA TickStep ==
  ASSUME Inv, Tick
  PROVE  Inv'
<1>1. now \in Nat /\ now' = now + 1 /\ now' \in 0 .. MaxTime
  BY PipelineConstants DEF Tick, Inv, TypeOK
<1>2. ASSUME NEW k \in Keys
      PROVE  /\ level'[k] \in Nat /\ level'[k] <= Capacity(k)
             /\ level'[k] <= level[k] + Rate[k[1]]
             /\ level[k] \in Nat /\ charged[k] \in Nat
  <2>1. level[k] \in Nat /\ charged[k] \in Nat /\ Rate[k[1]] \in Nat /\ Capacity(k) \in Nat
    BY KeyTypes DEF Inv, TypeOK
  <2>2. level'[k] = Min({Capacity(k), level[k] + Rate[k[1]]})
    BY DEF Tick
  <2> QED BY <2>1, <2>2, MinOfTwo
<1>3. level' \in [Keys -> Nat]
  BY <1>2 DEF Tick
<1>4. Drawn'
  <2> SUFFICES ASSUME NEW k \in Keys
               PROVE  charged[k] * Unit + level'[k] <= Capacity(k) + Rate[k[1]] * now'
    BY DEF Drawn, Capacity, Tick
  <2>1. charged[k] * Unit + level[k] <= Capacity(k) + Rate[k[1]] * now
    BY DEF Inv, Drawn
  <2>2. Rate[k[1]] \in Nat /\ Capacity(k) \in Nat /\ Unit \in Nat
    BY KeyTypes, PipelineConstants
  <2>3. Rate[k[1]] * now' = Rate[k[1]] * now + Rate[k[1]] /\ Rate[k[1]] * now \in Nat
    BY <1>1, <2>2
  <2>4. charged[k] * Unit \in Nat
    BY <1>2, <2>2
  <2> QED BY <1>2, <2>1, <2>2, <2>3, <2>4
<1>5. TypeOK'
  BY <1>1, <1>2, <1>3 DEF Tick, Inv, TypeOK, Capacity
<1>6. Addressed' /\ Paid' /\ InOrder' /\ FailOpenStaysAvailable'
  <2>1. /\ \A k \in Keys : Holders(k)' = Holders(k)
        /\ \A c \in Clients : AtAuthIP(c)' = AtAuthIP(c)
        /\ AtUser' = AtUser /\ AtIP' = AtIP
    BY DEF Tick, Holders, HasPaid, KeyOf, Past, AtAuthIP, AtUser, AtIP
  <2> QED BY <2>1 DEF Tick, Inv, Addressed, Paid, InOrder, FailOpenStaysAvailable
<1> QED BY <1>4, <1>5, <1>6 DEF Inv

\* The request that reaches its handler has paid for all its keys.
LEMMA HandleStep ==
  ASSUME Inv, NEW r \in Requests, Handle(r)
  PROVE  Inv'
<1>1. req[r] \in Request /\ req[r].pc = "handler"
  BY DEF Handle, Inv, TypeOK, Addressed
<1>2. /\ req' \in [Requests -> Request]
      /\ \A s \in Requests : s # r => req'[s] = req[s]
      /\ req'[r].pc = "done" /\ req'[r].client = req[r].client /\ ~req'[r].paid
      /\ req'[r].status \in {req[r].status, "ok"}
  BY <1>1 DEF Handle, Finish, Send, Inv, TypeOK, Request, Policies
<1>3. served' \in [Keys -> Nat]
  BY DEF Handle, Inv, TypeOK
<1>4. TypeOK'
  BY <1>2, <1>3 DEF Handle, Inv, TypeOK, buckets, Capacity
<1>5. Drawn'
  BY DEF Handle, Inv, Drawn, buckets, Capacity
<1>6. Addressed' /\ FailOpenStaysAvailable'
  BY <1>1, <1>2 DEF Handle, Inv, Addressed, FailOpenStaysAvailable
<1>7. Paid'
  <2> SUFFICES ASSUME ~failOpen, NEW k \in Keys
               PROVE  served'[k] + Cardinality(Holders(k)') <= charged[k]
    BY DEF Paid, Handle, buckets
  <2>1. served[k] \in Nat /\ charged[k] \in Nat
        /\ served[k] + Cardinality(Holders(k)) <= charged[k]
    BY DEF Inv, TypeOK, Paid
  <2>2. Change(Holders(k), Holders(k)', r)
    BY <1>2, Counts
  <2>3. r \notin Holders(k)'
    BY <1>2, KeyTypes DEF Holders, HasPaid, Past, Policies
  <2>4. CASE k \in KeysOf(r)
    <3>1. HasPaid(r, k)
      BY <1>1, <2>4 DEF KeysOf, HasPaid, KeyOf, Past, Policies
    <3>2. r \in Holders(k) /\ served'[k] = served[k] + 1
      BY <2>4, <3>1 DEF Holders, Handle
    <3> QED BY <2>1, <2>2, <2>3, <3>2 DEF Change
  <2>5. CASE k \notin KeysOf(r)
    BY <2>1, <2>2, <2>3, <2>5 DEF Change, Handle
  <2> QED BY <2>4, <2>5
<1>8. InOrder'
  <2>1. /\ \A c \in Clients : AtAuthIP(c)' = AtAuthIP(c)
        /\ AtUser' = AtUser /\ AtIP' = AtIP
    BY <1>1, <1>2 DEF AtAuthIP, AtUser, AtIP
  <2> QED BY <2>1 DEF Handle, Inv, InOrder, buckets
<1> QED BY <1>4, <1>5, <1>6, <1>7, <1>8 DEF Inv

\* Two counters and the requests between them: one that is counted further in
\* leaves the set, one that enters it is counted further out.
LEMMA Balance ==
  ASSUME NEW A, NEW B, NEW r, Change(A, B, r),
         NEW inner \in Nat, NEW outer \in Nat, NEW innerNext \in Nat, NEW outerNext \in Nat,
         NEW X \in BOOLEAN, NEW Y \in BOOLEAN,
         inner + Cardinality(A) <= outer,
         innerNext = IF X THEN inner + 1 ELSE inner,
         outerNext = IF Y THEN outer + 1 ELSE outer,
         r \in B => r \in A \/ Y,
         X => r \in A /\ r \notin B
  PROVE  innerNext + Cardinality(B) <= outerNext
BY DEF Change

\* What a limiter does with a request: it charges it and lets it pass, or keeps
\* it and is sent again, or turns it away, charged or not.
Moved(r, p) ==
  \/ req'[r].pc = After(p, req[r].route) /\ ~req'[r].paid /\ Charge(r, KeyOf(p, r))
  \/ req'[r].pc = p /\ req'[r].paid /\ Charge(r, KeyOf(p, r))
  \/ req'[r].pc = "done" /\ ~req'[r].paid

LEMMA OrderKept ==
  ASSUME Inv, ~failOpen, NEW r \in Requests, NEW p \in Policies,
         req[r].pc = p, KeyOf(p, r) \in Keys,
         \A s \in Requests : s # r => req'[s] = req[s],
         req'[r].client = req[r].client,
         Charge(r, KeyOf(p, r)) \/ UNCHANGED buckets, now' = now,
         Moved(r, p)
  PROVE  /\ \A c \in Clients : payers'[<<"auth_ip", c>>]
              + Cardinality(AtAuthIP(c)') <= payers'[<<"ip", c>>]
         /\ total'["user"] + Cardinality(AtUser') <= total'["auth_ip"]
         /\ total'["ip"] + Cardinality(AtIP') <= total'["global"]
<1> DEFINE k0 == KeyOf(p, r)
           pays == Charge(r, k0) /\ ~req[r].paid
<1>1. k0[1] = p /\ req[r] \in Request
  BY DEF KeyOf, Policies, Inv, TypeOK
<1>2. /\ \A k \in Keys : payers[k] \in Nat /\ payers'[k] \in Nat
      /\ \A q \in Policies : total[q] \in Nat /\ total'[q] \in Nat
      /\ \A k \in Keys : payers'[k] = IF pays /\ k = k0 THEN payers[k] + 1 ELSE payers[k]
      /\ \A q \in Policies : total'[q] = IF pays /\ q = p THEN total[q] + 1 ELSE total[q]
  <2>1. CASE Charge(r, k0)
    BY <1>1, <2>1, ChargeFacts DEF Inv, TypeOK
  <2>2. CASE ~Charge(r, k0)
    BY <2>2 DEF buckets, Inv, TypeOK
  <2> QED BY <2>1, <2>2
<1>3. /\ p = "global" => After(p, req[r].route) = "ip"
      /\ p = "ip" => After(p, req[r].route) = "auth_ip"
      /\ p = "auth_ip" => After(p, req[r].route) \in {"auth", "handler"}
      /\ p = "user" => After(p, req[r].route) = "handler"
      /\ p \in {"global", "ip", "auth_ip", "user"}
  BY DEF After, Policies
<1>4. (Charge(r, k0) => pays \/ req[r].paid) /\ (pays => ~req[r].paid)
  OBVIOUS
<1>5. \/ req'[r].pc = After(p, req[r].route) /\ ~req'[r].paid /\ Charge(r, k0)
      \/ req'[r].pc = p /\ req'[r].paid /\ Charge(r, k0)
      \/ req'[r].pc = "done" /\ ~req'[r].paid
  BY DEF Moved
<1>6. ASSUME NEW c \in Clients
      PROVE  payers'[<<"auth_ip", c>>] + Cardinality(AtAuthIP(c)') <= payers'[<<"ip", c>>]
  <2> DEFINE X == pays /\ k0 = <<"auth_ip", c>>
             Y == pays /\ k0 = <<"ip", c>>
  <2>1. /\ k0 = <<"auth_ip", c>> <=> req[r].client = c /\ p = "auth_ip"
        /\ k0 = <<"ip", c>> <=> req[r].client = c /\ p = "ip"
    BY DEF KeyOf, Policies
  <2>2. <<"auth_ip", c>> \in Keys /\ <<"ip", c>> \in Keys
    BY KeyTypes
  <2>3. Change(AtAuthIP(c), AtAuthIP(c)', r)
    BY Counts
  <2>4. payers[<<"auth_ip", c>>] + Cardinality(AtAuthIP(c)) <= payers[<<"ip", c>>]
    BY DEF Inv, InOrder
  <2>5. /\ payers'[<<"auth_ip", c>>] = IF X THEN payers[<<"auth_ip", c>>] + 1
                                            ELSE payers[<<"auth_ip", c>>]
        /\ payers'[<<"ip", c>>] = IF Y THEN payers[<<"ip", c>>] + 1 ELSE payers[<<"ip", c>>]
        /\ payers[<<"auth_ip", c>>] \in Nat /\ payers[<<"ip", c>>] \in Nat
        /\ payers'[<<"auth_ip", c>>] \in Nat /\ payers'[<<"ip", c>>] \in Nat
    BY <1>2, <2>2
  <2>6. /\ r \in AtAuthIP(c) <=>
              /\ req[r].client = c
              /\ (p = "ip" /\ req[r].paid) \/ (p = "auth_ip" /\ ~req[r].paid)
        /\ r \in AtAuthIP(c)' <=>
              /\ req[r].client = c
              /\ (req'[r].pc = "ip" /\ req'[r].paid) \/ (req'[r].pc = "auth_ip" /\ ~req'[r].paid)
    BY DEF AtAuthIP
  <2>7. (r \in AtAuthIP(c)' => r \in AtAuthIP(c) \/ Y) /\ (X => r \in AtAuthIP(c) /\ r \notin AtAuthIP(c)')
    <3> HIDE DEF k0, pays
    <3> QED BY <1>3, <1>4, <1>5, <2>1, <2>6
  <2>8. X \in BOOLEAN /\ Y \in BOOLEAN
    OBVIOUS
  <2> HIDE DEF X, Y, k0, pays
  <2> QED BY <2>3, <2>4, <2>5, <2>7, <2>8, Balance
<1>7. total'["user"] + Cardinality(AtUser') <= total'["auth_ip"]
  <2> DEFINE X == pays /\ p = "user"
             Y == pays /\ p = "auth_ip"
  <2>1. Change(AtUser, AtUser', r)
    BY Counts
  <2>2. total["user"] + Cardinality(AtUser) <= total["auth_ip"]
    BY DEF Inv, InOrder
  <2>3. /\ total'["user"] = IF X THEN total["user"] + 1 ELSE total["user"]
        /\ total'["auth_ip"] = IF Y THEN total["auth_ip"] + 1 ELSE total["auth_ip"]
        /\ total["user"] \in Nat /\ total["auth_ip"] \in Nat
        /\ total'["user"] \in Nat /\ total'["auth_ip"] \in Nat
    BY <1>2 DEF Policies
  <2>4. /\ r \in AtUser <=> (p = "auth_ip" /\ req[r].paid) \/ (p = "user" /\ ~req[r].paid)
        /\ r \in AtUser' <=> \/ req'[r].pc = "auth_ip" /\ req'[r].paid
                             \/ req'[r].pc = "auth"
                             \/ req'[r].pc = "user" /\ ~req'[r].paid
    BY DEF AtUser, Policies
  <2>5. (r \in AtUser' => r \in AtUser \/ Y) /\ (X => r \in AtUser /\ r \notin AtUser')
    <3> HIDE DEF k0, pays
    <3> QED BY <1>3, <1>4, <1>5, <2>4
  <2>8. X \in BOOLEAN /\ Y \in BOOLEAN
    OBVIOUS
  <2> HIDE DEF X, Y, k0, pays
  <2> QED BY <2>1, <2>2, <2>3, <2>5, <2>8, Balance
<1>8. total'["ip"] + Cardinality(AtIP') <= total'["global"]
  <2> DEFINE X == pays /\ p = "ip"
             Y == pays /\ p = "global"
  <2>1. Change(AtIP, AtIP', r)
    BY Counts
  <2>2. total["ip"] + Cardinality(AtIP) <= total["global"]
    BY DEF Inv, InOrder
  <2>3. /\ total'["ip"] = IF X THEN total["ip"] + 1 ELSE total["ip"]
        /\ total'["global"] = IF Y THEN total["global"] + 1 ELSE total["global"]
        /\ total["ip"] \in Nat /\ total["global"] \in Nat
        /\ total'["ip"] \in Nat /\ total'["global"] \in Nat
    BY <1>2 DEF Policies
  <2>4. /\ r \in AtIP <=> (p = "global" /\ req[r].paid) \/ (p = "ip" /\ ~req[r].paid)
        /\ r \in AtIP' <=> \/ req'[r].pc = "global" /\ req'[r].paid
                           \/ req'[r].pc = "ip" /\ ~req'[r].paid
    BY DEF AtIP
  <2>5. (r \in AtIP' => r \in AtIP \/ Y) /\ (X => r \in AtIP /\ r \notin AtIP')
    <3> HIDE DEF k0, pays
    <3> QED BY <1>3, <1>4, <1>5, <2>4
  <2>8. X \in BOOLEAN /\ Y \in BOOLEAN
    OBVIOUS
  <2> HIDE DEF X, Y, k0, pays
  <2> QED BY <2>1, <2>2, <2>3, <2>5, <2>8, Balance
<1> QED BY <1>6, <1>7, <1>8

\* A limiter lets a request pass only for a token, unless it fails open; tokens
\* may also be taken of a request that stays, or is turned away.
LEMMA LimiterStep ==
  ASSUME Inv, NEW r \in Requests, NEW p \in Policies, KeyedRateLimit(r, p) \/ SendAgain(r, p)
  PROVE  Inv'
<1> DEFINE k0 == KeyOf(p, r)
           next == After(p, req[r].route)
<1>0. UNCHANGED <<now, failOpen, arrived, served>>
  BY DEF KeyedRateLimit, SendAgain
<1>1. /\ req[r] \in Request /\ req[r].pc = p /\ req[r].client \in Clients
      /\ p = "user" => req[r].user \in Users /\ req[r].route = "me"
  BY DEF KeyedRateLimit, SendAgain, Inv, TypeOK, Addressed, Policies
<1>2. k0 \in Keys /\ k0[1] = p
  BY <1>1 DEF KeyOf, Keys, Policies
<1>3. next \in {"ip", "auth_ip", "auth", "user", "handler"}
  BY <1>1 DEF After, Policies, Request, Routes
<1>4. /\ (Charge(r, k0) \/ UNCHANGED buckets)
      /\ \/ Pass(r) /\ (failOpen \/ Charge(r, k0))
         \/ Finish(r, "429")
         \/ ~failOpen /\ Finish(r, "503")
         \/ Charge(r, k0) /\ req' = [req EXCEPT ![r].paid = TRUE]
  BY DEF KeyedRateLimit, SendAgain, Failed
<1>5. /\ req' \in [Requests -> Request]
      /\ \A s \in Requests : s # r => req'[s] = req[s]
      /\ req'[r].client = req[r].client /\ req'[r].route = req[r].route
      /\ req'[r].user = req[r].user
      /\ \/ req'[r].pc = next /\ ~req'[r].paid /\ (failOpen \/ Charge(r, k0))
         \/ req'[r].pc = p /\ req'[r].paid /\ Charge(r, k0)
         \/ req'[r].pc = "done" /\ ~req'[r].paid
      /\ failOpen => req'[r].status \in {req[r].status, "429"}
  <2>1. CASE Pass(r) /\ (failOpen \/ Charge(r, k0))
    BY <1>1, <1>3, <2>1 DEF Pass, Inv, TypeOK, Request, Policies
  <2>2. CASE Finish(r, "429")
    BY <1>1, <2>2 DEF Finish, Send, Inv, TypeOK, Request, Policies
  <2>3. CASE ~failOpen /\ Finish(r, "503")
    BY <1>1, <2>3 DEF Finish, Send, Inv, TypeOK, Request, Policies
  <2>4. CASE Charge(r, k0) /\ req' = [req EXCEPT ![r].paid = TRUE]
    BY <1>1, <2>4 DEF Inv, TypeOK, Request
  <2> QED BY <1>4, <2>1, <2>2, <2>3, <2>4
<1>6. /\ level' \in [Keys -> Nat] /\ \A k \in Keys : level'[k] <= Capacity(k)
      /\ charged' \in [Keys -> Nat] /\ payers' \in [Keys -> Nat] /\ total' \in [Policies -> Nat]
      /\ Drawn'
  <2>1. CASE Charge(r, k0)
    BY <1>0, <1>2, <2>1, ChargeFacts DEF Inv
  <2>2. CASE UNCHANGED buckets
    BY <1>0, <2>2 DEF buckets, Inv, TypeOK, Drawn, Capacity
  <2> QED BY <1>4, <2>1, <2>2
<1>7. TypeOK'
  BY <1>0, <1>5, <1>6 DEF Inv, TypeOK, Capacity
<1>8. Addressed'
  <2>1. next \in {"auth", "user"} => req[r].route = "me"
    BY <1>1 DEF After, Policies, Request, Routes
  <2>2. next # "user" /\ (next = "handler" /\ req[r].route = "me" => p = "user")
    BY <1>1 DEF After, Policies, Request, Routes
  <2>3. p \notin {"auth", "handler"}
    BY DEF Policies
  <2> QED BY <1>1, <1>5, <2>1, <2>2, <2>3 DEF Inv, Addressed
<1>9. FailOpenStaysAvailable'
  BY <1>0, <1>5 DEF Inv, FailOpenStaysAvailable
<1>10. Paid'
  <2> SUFFICES ASSUME ~failOpen, NEW k \in Keys
               PROVE  served[k] + Cardinality(Holders(k)') <= charged'[k]
    BY <1>0 DEF Paid
  <2>1. served[k] \in Nat /\ charged[k] \in Nat
        /\ served[k] + Cardinality(Holders(k)) <= charged[k]
    BY DEF Inv, TypeOK, Paid
  <2>2. Change(Holders(k), Holders(k)', r)
    BY <1>5, Counts
  <2>3. charged'[k] \in Nat /\ charged'[k] >= charged[k]
        /\ (Charge(r, k0) /\ k = k0 => charged'[k] = charged[k] + 1)
    BY <1>0, <1>2, <1>4, <2>1, ChargeFacts DEF buckets, Inv
  <2>4. CASE Charge(r, k0) /\ k = k0
    BY <2>1, <2>2, <2>3, <2>4 DEF Change
  <2>5. CASE ~(Charge(r, k0) /\ k = k0)
    <3>1. ASSUME HasPaid(r, k)' PROVE HasPaid(r, k)
      <4>0. k = KeyOf(k[1], r) /\ (k[1] = "user" => req[r].route = "me")
        BY <1>5, <3>1, KeyTypes DEF HasPaid, KeyOf, Policies
      <4>1. req'[r].pc \in Past(k[1]) /\ req'[r].pc # "done"
        BY <3>1, KeyTypes DEF HasPaid, Past, Policies
      <4>2. CASE req'[r].pc = p
        BY <1>1, <4>0, <4>1, <4>2 DEF HasPaid
      <4>3. CASE req'[r].pc = next /\ Charge(r, k0)
        <5>1. k[1] # p /\ next \in Past(k[1])
          BY <2>5, <4>0, <4>1, <4>3
        <5>2. p \in Past(k[1])
          BY <1>1, <4>0, <5>1, KeyTypes DEF After, Past, Policies, Request, Routes
        <5> QED BY <1>1, <4>0, <5>2 DEF HasPaid
      <4> QED BY <1>5, <4>1, <4>2, <4>3
    <3> QED BY <2>1, <2>2, <2>3, <3>1 DEF Change, Holders
  <2> QED BY <2>4, <2>5
<1>11. InOrder'
  <2>1. ASSUME ~failOpen PROVE Moved(r, p)
    BY <1>5, <2>1 DEF Moved
  <2> QED BY <1>0, <1>1, <1>2, <1>4, <1>5, <2>1, OrderKept DEF InOrder
<1> QED BY <1>7, <1>8, <1>9, <1>10, <1>11, <1>6 DEF Inv

-----------------------------------------------------------------------------
(* The theorems                                                            *)

LEMMA Initially == Init => Inv
<1> SUFFICES ASSUME Init PROVE Inv
  OBVIOUS
<1>1. TypeOK
  BY KeyTypes, PipelineConstants DEF Init, TypeOK, Idle, Request, Routes
<1>2. Addressed /\ FailOpenStaysAvailable
  BY DEF Init, Idle, Addressed, FailOpenStaysAvailable
<1>3. Drawn
  <2> SUFFICES ASSUME NEW k \in Keys
               PROVE  0 * Unit + Capacity(k) <= Capacity(k) + Rate[k[1]] * 0
    BY DEF Drawn, Init
  <2> QED BY KeyTypes, PipelineConstants
<1>4. /\ \A k \in Keys : Holders(k) = {}
      /\ \A c \in Clients : AtAuthIP(c) = {}
      /\ AtUser = {} /\ AtIP = {}
  BY KeyTypes DEF Init, Idle, Holders, HasPaid, Past, Policies, AtAuthIP, AtUser, AtIP
<1>5. Cardinality({}) = 0
  BY FS_EmptySet
<1>6. Paid
  BY <1>4, <1>5 DEF Init, Paid
<1>7. InOrder
  <2>1. /\ \A k \in Keys : payers[k] = 0
        /\ total["user"] = 0 /\ total["auth_ip"] = 0 /\ total["ip"] = 0 /\ total["global"] = 0
    BY DEF Init, Policies
  <2>2. \A c \in Clients : payers[<<"auth_ip", c>>] = 0 /\ payers[<<"ip", c>>] = 0
    BY <2>1, KeyTypes
  <2> QED BY <1>4, <1>5, <2>1, <2>2 DEF InOrder
<1> QED BY <1>1, <1>2, <1>3, <1>6, <1>7 DEF Inv

(***************************************************************************)
(* Every step of a request, of the clock and of the server keeps the       *)
(* account of the tokens.                                                  *)
(***************************************************************************)
THEOREM Inductive == Spec => []Inv
<1>1. ASSUME Inv, [Next]_vars PROVE Inv'
  <2>1. CASE Tick
    BY <1>1, <2>1, TickStep
  <2>2. ASSUME NEW r \in Requests, NEW route \in Routes, NEW c \in Clients,
               Arrive(r, route, c)
        PROVE  Inv'
    BY <1>1, <2>2, ArriveStep
  <2>3. ASSUME NEW r \in Requests, NEW p \in Policies, KeyedRateLimit(r, p) \/ SendAgain(r, p)
        PROVE  Inv'
    BY <1>1, <2>3, LimiterStep
  <2>4. ASSUME NEW r \in Requests, Auth(r) \/ Handle(r) \/ Timeout(r) \/ Return(r)
        PROVE  Inv'
    BY <1>1, <2>4, AuthStep, HandleStep, TimeoutStep, ReturnStep
  <2>5. CASE UNCHANGED vars
    <3>1. UNCHANGED <<now, failOpen, level, charged, payers, total, req, arrived, served>>
      BY <2>5 DEF vars, buckets
    <3>2. /\ \A k \in Keys : Holders(k)' = Holders(k)
          /\ \A c \in Clients : AtAuthIP(c)' = AtAuthIP(c)
          /\ AtUser' = AtUser /\ AtIP' = AtIP
      BY <3>1 DEF Holders, HasPaid, KeyOf, Past, AtAuthIP, AtUser, AtIP
    <3> QED BY <1>1, <3>1, <3>2 DEF Inv, TypeOK, Addressed, Drawn, Paid, InOrder,
              FailOpenStaysAvailable, Capacity
  <2> QED BY <1>1, <2>1, <2>2, <2>3, <2>4, <2>5 DEF Next, Rest
<1> QED BY <1>1, Initially, PTL DEF Spec

(***************************************************************************)
(* Type correctness, with no bucket above its burst.                       *)
(***************************************************************************)
THEOREM TypeCorrect == Spec => []TypeOK
<1>1. Inv => TypeOK
  BY DEF Inv
<1> QED BY <1>1, Inductive, PTL

(***************************************************************************)
(* Fail-closed limiters are never bypassed: what reaches a handler was     *)
(* paid for, and the buckets pay no more than their burst and their rate.  *)
(***************************************************************************)
THEOREM NotBypassed == Spec => []NeverBypassed
<1>1. ASSUME Inv PROVE NeverBypassed
  <2> SUFFICES ASSUME ~failOpen, NEW k \in Keys
               PROVE  /\ served[k] <= charged[k]
                      /\ served[k] * Unit <= Capacity(k) + Rate[k[1]] * now
    BY DEF NeverBypassed
  <2>1. /\ served[k] \in Nat /\ charged[k] \in Nat /\ level[k] \in Nat /\ Unit \in Nat
        /\ served[k] + Cardinality(Holders(k)) <= charged[k]
        /\ charged[k] * Unit + level[k] <= Capacity(k) + Rate[k[1]] * now
    BY <1>1, PipelineConstants DEF Inv, TypeOK, Paid, Drawn
  <2>2. Holders(k) \in SUBSET Requests
    BY DEF Holders
  <2>3. Cardinality(Holders(k)) \in Nat
    BY <2>2, PipelineConstants, FS_Subset, FS_CardinalityType
  <2>4. served[k] <= charged[k]
    BY <2>1, <2>3
  <2>5. served[k] * Unit <= charged[k] * Unit
        /\ served[k] * Unit \in Nat /\ charged[k] * Unit \in Nat
    BY <2>1, <2>4, ProductGrows
  <2>6. Capacity(k) \in Nat /\ Rate[k[1]] * now \in Nat
    <3>1. Rate[k[1]] \in Nat /\ now \in Nat /\ Capacity(k) \in Nat
      BY <1>1, KeyTypes DEF Inv, TypeOK
    <3> QED BY <3>1
  <2> QED BY <2>1, <2>4, <2>5, <2>6
<1> QED BY <1>1, Inductive, PTL

(***************************************************************************)
(* Fail-closed: an inner limiter charges only requests that the outer ones *)
(* have charged, however many tokens each takes of one request.            *)
(***************************************************************************)
THEOREM InnerFollowsOuter == Spec => []InnerChargesFollowOuter
<1>1. ASSUME Inv PROVE InnerChargesFollowOuter
  <2>1. \A A \in SUBSET Requests : Cardinality(A) \in Nat
    BY PipelineConstants, FS_Subset, FS_CardinalityType
  <2>2. /\ AtUser \in SUBSET Requests /\ AtIP \in SUBSET Requests
        /\ \A c \in Clients : AtAuthIP(c) \in SUBSET Requests
    BY DEF AtUser, AtIP, AtAuthIP
  <2>3. /\ \A c \in Clients : payers[<<"auth_ip", c>>] \in Nat /\ payers[<<"ip", c>>] \in Nat
        /\ \A p \in Policies : total[p] \in Nat
    BY <1>1, KeyTypes DEF Inv, TypeOK
  <2> QED BY <1>1, <2>1, <2>2, <2>3 DEF Inv, InOrder, InnerChargesFollowOuter, Policies
<1> QED BY <1>1, Inductive, PTL

(***************************************************************************)
(* Fail-open limiters turn no request away because redis fails.            *)
(***************************************************************************)
THEOREM FailOpenAvailable == Spec => []FailOpenStaysAvailable
<1>1. Inv => FailOpenStaysAvailable
  BY DEF Inv
<1> QED BY <1>1, Inductive, PTL
=============================================================================
