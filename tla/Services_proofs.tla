---------------------------- MODULE Services_proofs ----------------------------
(***************************************************************************)
(* Proofs about the services around the queue: the per-IP rate limiter,    *)
(* the cron scheduler, the migrations, the paged lists with the tail, and  *)
(* the messages of SNS.                                                    *)
(***************************************************************************)
EXTENDS RateLimiter, Cron, Migration, Listing, Sns, FiniteSetTheorems, WellFoundedInduction, TLAPS

-----------------------------------------------------------------------------
(* The per-IP rate limiter.                                                *)

(* The map holds counters within the limit, of windows that have begun.    *)
LimiterTypeOK ==
  /\ now \in 0..MaxNow
  /\ DOMAIN entries \subseteq Addresses
  /\ entries \in [DOMAIN entries -> [count : 1..Limit, since : 0..now]]
  /\ passed \in [Addresses -> [Instants -> Nat]]

(* At time n, with p[t] requests let through before instant t: counts do   *)
(* not decrease, and later instants have those of the present.             *)
Counted(p, n) ==
  /\ \A t, u \in Instants : t <= u => p[t] <= p[u]
  /\ \A u \in Instants : u > n => p[u] = p[n + 1]

(* An entry has counted what passed since its window began; nothing passed *)
(* since the window's end, and little in the second before its beginning.  *)
Followed(p, n, e) ==
  /\ p[n + 1] <= p[e.since] + e.count
  /\ \A u \in Instants : e.since + Window <= u => p[u] = p[n + 1]
  /\ \A t \in Instants :
       e.since - Window < t /\ t <= e.since => p[e.since] <= p[t] + Limit

(* Without an entry, little passed in the last second and nothing now.     *)
Forgotten(p, n) ==
  /\ p[n] = p[n + 1]
  /\ \A t \in Instants : n - Window < t => p[n + 1] <= p[t] + Limit

Bounded(p, n) ==
  \A t, u \in 0..(n + 1) : t <= u /\ u <= t + Window => p[u] - p[t] <= 2 * Limit

FlowKept(ip) ==
  /\ Counted(passed[ip], now) /\ Bounded(passed[ip], now)
  /\ ip \in DOMAIN entries => Followed(passed[ip], now, entries[ip])
  /\ ip \notin DOMAIN entries => Forgotten(passed[ip], now)

LimiterInv == LimiterTypeOK /\ \A ip \in Addresses : FlowKept(ip)

LEMMA LimiterInit_Inv == LimiterInit => LimiterInv
  BY LimiterAssumption
  DEF LimiterInit, LimiterInv, LimiterTypeOK, FlowKept, Counted, Bounded, Forgotten, Instants

(* What a request that is let through leaves of its address: an entry      *)
(* whose window it begins, or which counts it as well.                     *)
LEMMA AdmitTypes ==
  ASSUME LimiterInv, NEW ip \in Addresses, Admit(ip)
  PROVE  /\ now' = now /\ LimiterTypeOK'
         /\ DOMAIN entries' = DOMAIN entries \cup {ip}
         /\ \A a \in DOMAIN entries \ {ip} : entries'[a] = entries[a]
         /\ \A a \in Addresses \ {ip} : passed'[a] = passed[a]
         /\ \A t \in Instants :
              passed'[ip][t] = IF t > now THEN passed[ip][t] + 1 ELSE passed[ip][t]
         /\ \/ /\ ip \in DOMAIN entries => IsOver(entries[ip])
               /\ entries'[ip] = [count |-> 1, since |-> now]
            \/ /\ ip \in DOMAIN entries /\ ~IsOver(entries[ip])
               /\ entries[ip].count < Limit
               /\ entries'[ip] = [entries[ip] EXCEPT !.count = @ + 1]
<1>1. LimiterTypeOK /\ now' = now
  BY DEF LimiterInv, Admit
<1> DEFINE new == [count |-> 1, since |-> now]
           more == [entries[ip] EXCEPT !.count = @ + 1]
<1>2. PICK e \in [count : 1..Limit, since : 0..now] :
        /\ Put(ip, e)
        /\ \/ (ip \in DOMAIN entries => IsOver(entries[ip])) /\ e = new
           \/ /\ ip \in DOMAIN entries /\ ~IsOver(entries[ip])
              /\ entries[ip].count < Limit /\ e = more
  <2>1. new \in [count : 1..Limit, since : 0..now]
    BY <1>1, LimiterAssumption DEF LimiterTypeOK
  <2>2. CASE ip \notin DOMAIN entries
    <3>1. EntryOf(ip) = [count |-> 0, since |-> now]
      BY <2>2 DEF EntryOf
    <3>2. ~IsOver(EntryOf(ip))
      BY <1>1, <3>1, LimiterAssumption DEF IsOver, LimiterTypeOK
    <3>3. Put(ip, [EntryOf(ip) EXCEPT !.count = @ + 1])
      BY <3>2 DEF Admit
    <3>4. [EntryOf(ip) EXCEPT !.count = @ + 1] = new
      BY <3>1
    <3> QED BY <2>1, <2>2, <3>3, <3>4
  <2>3. CASE ip \in DOMAIN entries
    <3>1. EntryOf(ip) = entries[ip] /\ entries[ip] \in [count : 1..Limit, since : 0..now]
      BY <1>1, <2>3 DEF EntryOf, LimiterTypeOK
    <3>2. CASE IsOver(entries[ip]) /\ Put(ip, new)
      BY <2>1, <2>3, <3>2
    <3>3. CASE ~IsOver(entries[ip]) /\ entries[ip].count < Limit /\ Put(ip, more)
      <4>1. more \in [count : 1..Limit, since : 0..now]
        BY <3>1, <3>3, LimiterAssumption
      <4> QED BY <2>3, <3>3, <4>1
    <3> QED BY <3>1, <3>2, <3>3 DEF Admit
  <2> QED BY <2>2, <2>3
<1>3. /\ DOMAIN entries' = DOMAIN entries \cup {ip} /\ entries'[ip] = e
      /\ \A a \in DOMAIN entries \ {ip} : entries'[a] = entries[a]
  BY <1>2 DEF Put
<1>4. entries' \in [DOMAIN entries' -> [count : 1..Limit, since : 0..now]]
  BY <1>1, <1>2, <1>3 DEF LimiterTypeOK, Put
<1>5. /\ passed' \in [Addresses -> [Instants -> Nat]]
      /\ \A a \in Addresses \ {ip} : passed'[a] = passed[a]
      /\ \A t \in Instants :
           passed'[ip][t] = IF t > now THEN passed[ip][t] + 1 ELSE passed[ip][t]
  BY <1>1 DEF Admit, LimiterTypeOK
<1>6. LimiterTypeOK'
  BY <1>1, <1>3, <1>4, <1>5 DEF LimiterTypeOK, Instants
<1> QED BY <1>1, <1>2, <1>3, <1>5, <1>6

Entry == [count : 1..Limit, since : Nat]

(* One more request at n.                                                  *)
More(p, q, n) == \A t \in Instants : q[t] = IF t > n THEN p[t] + 1 ELSE p[t]

LEMMA Times ==
  ASSUME NEW n \in 0..MaxNow
  PROVE  /\ Instants \subseteq Nat /\ 0..(n + 1) \subseteq Instants
         /\ n \in Nat /\ n \in Instants /\ n + 1 \in Instants
         /\ \A m \in Nat : m <= n + 1 => m \in Instants
         /\ Window \in Nat /\ Window > 0 /\ Limit \in Nat /\ Limit > 0
  BY LimiterAssumption DEF Instants

LEMMA MoreCounted ==
  ASSUME NEW p \in [Instants -> Nat], NEW q \in [Instants -> Nat],
         NEW n \in 0..MaxNow, Counted(p, n), More(p, q, n)
  PROVE  Counted(q, n)
<1>0. \A t \in Instants : t \in Nat /\ p[t] \in Nat
  BY Times
<1>1. ASSUME NEW t \in Instants, NEW u \in Instants, t <= u PROVE q[t] <= q[u]
  <2>1. p[t] <= p[u]
    BY <1>1 DEF Counted
  <2> QED BY <1>0, <1>1, <2>1, Times DEF More
<1>2. ASSUME NEW u \in Instants, u > n PROVE q[u] = q[n + 1]
  <2>1. p[u] = p[n + 1]
    BY <1>2 DEF Counted
  <2> QED BY <1>2, <2>1, Times DEF More
<1> QED BY <1>1, <1>2 DEF Counted

(* A window ends, or its entry is removed: little passed lately.           *)
LEMMA OverForgotten ==
  ASSUME NEW p \in [Instants -> Nat], NEW n \in 0..MaxNow, NEW e \in Entry,
         Counted(p, n), Followed(p, n, e), n - e.since >= Window
  PROVE  Forgotten(p, n)
<1>0. e.since \in Nat /\ e.count \in 1..Limit /\ e.since + Window <= n /\ e.since <= n + 1
  BY Times DEF Entry
<1>1. p[n] = p[n + 1]
  BY <1>0, Times DEF Followed
<1>2. ASSUME NEW t \in Instants, n - Window < t PROVE p[n + 1] <= p[t] + Limit
  <2>1. e.since \in Instants /\ e.since <= t
    BY <1>0, <1>2, Times
  <2>2. p[e.since] <= p[t]
    BY <2>1 DEF Counted
  <2>3. p[n + 1] <= p[e.since] + e.count
    BY DEF Followed
  <2>4. p[n + 1] \in Nat /\ p[e.since] \in Nat /\ p[t] \in Nat
    BY <2>1, Times
  <2> QED BY <1>0, <2>2, <2>3, <2>4, Times
<1> QED BY <1>1, <1>2 DEF Forgotten

(* A window begins with the request.                                       *)
LEMMA BeginFollowed ==
  ASSUME NEW p \in [Instants -> Nat], NEW q \in [Instants -> Nat], NEW n \in 0..MaxNow,
         Counted(p, n), Bounded(p, n), Forgotten(p, n), More(p, q, n)
  PROVE  Followed(q, n, [count |-> 1, since |-> n]) /\ Bounded(q, n)
<1> DEFINE d == [count |-> 1, since |-> n]
<1>0. /\ \A t \in Instants : t \in Nat /\ p[t] \in Nat /\ q[t] \in Nat
      /\ \A t \in Instants : t <= n => q[t] = p[t]
      /\ d.count = 1 /\ d.since = n
  BY Times DEF More
<1>1. q[n] = p[n] /\ q[n + 1] = p[n + 1] + 1 /\ p[n] = p[n + 1]
  BY Times DEF More, Forgotten
<1>2. ASSUME NEW u \in Instants, n + Window <= u PROVE q[u] = q[n + 1]
  <2>1. u > n
    BY <1>0, <1>2, Times
  <2> QED BY <2>1, Times DEF Counted, More
<1>3. ASSUME NEW t \in Instants, n - Window < t, t <= n PROVE q[n] <= q[t] + Limit
  <2>1. p[n + 1] <= p[t] + Limit
    BY <1>3 DEF Forgotten
  <2> QED BY <1>0, <1>1, <1>3, <2>1
<1>4. ASSUME NEW t \in 0..(n + 1), NEW u \in 0..(n + 1), t <= u, u <= t + Window
      PROVE  q[u] - q[t] <= 2 * Limit
  <2>0. t \in Instants /\ u \in Instants /\ t \in Nat /\ u \in Nat
    BY Times
  <2>1. CASE u <= n
    <3>1. p[u] - p[t] <= 2 * Limit
      BY <1>4 DEF Bounded
    <3> QED BY <1>0, <1>4, <2>0, <2>1, <3>1, Times
  <2>2. CASE u = n + 1 /\ t = n + 1
    BY <1>0, <2>0, <2>2, Times
  <2>3. CASE u = n + 1 /\ t <= n
    <3>1. n - Window < t
      BY <1>4, <2>0, <2>3, Times
    <3>2. p[n + 1] <= p[t] + Limit
      BY <2>0, <3>1 DEF Forgotten
    <3> QED BY <1>0, <1>1, <2>0, <2>3, <3>2, Times
  <2> QED BY <2>0, <2>1, <2>2, <2>3, Times
<1> HIDE DEF d
<1>5. Followed(q, n, d)
  BY <1>0, <1>1, <1>2, <1>3, Times DEF Followed
<1> QED BY <1>4, <1>5 DEF Bounded, d

(* A window takes one more request.                                        *)
LEMMA MoreFollowed ==
  ASSUME NEW p \in [Instants -> Nat], NEW q \in [Instants -> Nat], NEW n \in 0..MaxNow,
         NEW e \in Entry, e.since <= n, n - e.since < Window, e.count < Limit,
         Counted(p, n), Bounded(p, n), Followed(p, n, e), More(p, q, n)
  PROVE  Followed(q, n, [e EXCEPT !.count = @ + 1]) /\ Bounded(q, n)
<1> DEFINE d == [e EXCEPT !.count = @ + 1]
<1>0. /\ \A t \in Instants : t \in Nat /\ p[t] \in Nat /\ q[t] \in Nat
      /\ \A t \in Instants : t <= n => q[t] = p[t]
      /\ d.count = e.count + 1 /\ d.since = e.since /\ e.since \in Nat /\ e.count \in Nat
      /\ e.since \in Instants
  BY Times DEF More, Entry
<1> HIDE DEF d
<1>1. /\ q[n + 1] = p[n + 1] + 1 /\ q[d.since] = p[d.since]
      /\ p[n + 1] <= p[d.since] + e.count /\ q[n + 1] <= q[d.since] + d.count
  <2>1. q[n + 1] = p[n + 1] + 1 /\ q[d.since] = p[d.since]
    BY <1>0, Times DEF More
  <2>2. p[n + 1] <= p[d.since] + e.count
    BY <1>0 DEF Followed
  <2> QED BY <1>0, <2>1, <2>2, Times
<1>2. ASSUME NEW u \in Instants, d.since + Window <= u PROVE q[u] = q[n + 1]
  <2>1. u > n
    BY <1>0, <1>2, Times
  <2> QED BY <2>1, Times DEF Counted, More
<1>3. ASSUME NEW t \in Instants, d.since - Window < t, t <= d.since
      PROVE  q[d.since] <= q[t] + Limit
  <2>1. p[d.since] <= p[t] + Limit
    BY <1>0, <1>3 DEF Followed
  <2>2. q[t] = p[t]
    BY <1>0, <1>3, Times
  <2> QED BY <1>1, <2>1, <2>2
<1>4. ASSUME NEW t \in 0..(n + 1), NEW u \in 0..(n + 1), t <= u, u <= t + Window
      PROVE  q[u] - q[t] <= 2 * Limit
  <2>0. t \in Instants /\ u \in Instants /\ t \in Nat /\ u \in Nat
    BY Times
  <2>1. CASE u <= n
    <3>1. p[u] - p[t] <= 2 * Limit
      BY <1>4 DEF Bounded
    <3> QED BY <1>0, <1>4, <2>0, <2>1, <3>1, Times
  <2>2. CASE u = n + 1 /\ t = n + 1
    BY <1>0, <2>0, <2>2, Times
  <2>3. CASE u = n + 1 /\ t <= n /\ t <= d.since
    <3>1. q[d.since] <= q[t] + Limit
      BY <1>0, <1>3, <1>4, <2>0, <2>3, Times
    <3> QED BY <1>0, <1>1, <2>0, <2>3, <3>1, Times
  <2>4. CASE u = n + 1 /\ t <= n /\ d.since < t
    <3>1. p[d.since] <= p[t]
      BY <1>0, <2>0, <2>4, Times DEF Counted
    <3> QED BY <1>0, <1>1, <2>0, <2>4, <3>1, Times
  <2> QED BY <1>0, <2>0, <2>1, <2>2, <2>3, <2>4, Times
<1>5. Followed(q, n, d)
  BY <1>0, <1>1, <1>2, <1>3, Times DEF Followed
<1> QED BY <1>4, <1>5 DEF Bounded, d

LEMMA AdmitKept ==
  ASSUME LimiterInv, NEW ip \in Addresses, Admit(ip)
  PROVE  LimiterInv'
<1>0. /\ LimiterTypeOK /\ FlowKept(ip) /\ now' = now /\ LimiterTypeOK' /\ now \in 0..MaxNow
      /\ passed[ip] \in [Instants -> Nat] /\ passed'[ip] \in [Instants -> Nat]
      /\ More(passed[ip], passed'[ip], now)
  BY AdmitTypes DEF LimiterInv, LimiterTypeOK, More, Instants
<1>1. ASSUME NEW a \in Addresses \ {ip} PROVE FlowKept(a)'
  <2>1. passed'[a] = passed[a] /\ FlowKept(a) /\ (a \in DOMAIN entries' <=> a \in DOMAIN entries)
    BY AdmitTypes DEF LimiterInv
  <2>2. a \in DOMAIN entries => entries'[a] = entries[a]
    BY AdmitTypes
  <2> QED BY <1>0, <2>1, <2>2 DEF FlowKept
<1>2. Counted(passed'[ip], now)
  BY <1>0, MoreCounted DEF FlowKept
<1>3. Bounded(passed'[ip], now) /\ Followed(passed'[ip], now, entries'[ip])
  <2>1. CASE /\ ip \in DOMAIN entries => IsOver(entries[ip])
             /\ entries'[ip] = [count |-> 1, since |-> now]
    <3>1. Forgotten(passed[ip], now)
      <4>1. CASE ip \notin DOMAIN entries
        BY <1>0, <4>1 DEF FlowKept
      <4>2. CASE ip \in DOMAIN entries
        <5>1. entries[ip] \in Entry /\ now - entries[ip].since >= Window
          BY <1>0, <2>1, <4>2 DEF LimiterTypeOK, Entry, IsOver
        <5> QED BY <1>0, <4>2, <5>1, OverForgotten DEF FlowKept
      <4> QED BY <4>1, <4>2
    <3> QED BY <1>0, <2>1, <3>1, BeginFollowed DEF FlowKept
  <2>2. CASE /\ ip \in DOMAIN entries /\ ~IsOver(entries[ip])
             /\ entries[ip].count < Limit
             /\ entries'[ip] = [entries[ip] EXCEPT !.count = @ + 1]
    <3>1. /\ entries[ip] \in Entry /\ entries[ip].since <= now
          /\ now - entries[ip].since < Window
      BY <1>0, <2>2, Times DEF LimiterTypeOK, Entry, IsOver
    <3> QED BY <1>0, <2>2, <3>1, MoreFollowed DEF FlowKept
  <2> QED BY <2>1, <2>2, AdmitTypes
<1>4. FlowKept(ip)'
  BY <1>0, <1>2, <1>3, AdmitTypes DEF FlowKept
<1> QED BY <1>0, <1>1, <1>4 DEF LimiterInv

LEMMA CleanupKept ==
  ASSUME LimiterInv, Cleanup
  PROVE  LimiterInv'
<1>0. /\ LimiterTypeOK /\ now \in 0..MaxNow /\ UNCHANGED <<now, passed>>
      /\ DOMAIN entries' = {a \in DOMAIN entries : IsKept(entries[a])}
      /\ \A a \in DOMAIN entries' : entries'[a] = entries[a]
      /\ entries' = [ip \in DOMAIN entries' |-> entries[ip]]
  BY DEF LimiterInv, LimiterTypeOK, Cleanup
<1>1. LimiterTypeOK'
  BY <1>0 DEF LimiterTypeOK
<1>2. ASSUME NEW ip \in Addresses PROVE FlowKept(ip)'
  <2>0. FlowKept(ip)
    BY DEF LimiterInv
  <2>1. CASE ip \in DOMAIN entries'
    BY <1>0, <2>0, <2>1 DEF FlowKept
  <2>2. CASE ip \notin DOMAIN entries
    BY <1>0, <2>0, <2>2 DEF FlowKept
  <2>3. CASE ip \in DOMAIN entries \ DOMAIN entries'
    <3>1. entries[ip] \in Entry /\ passed[ip] \in [Instants -> Nat]
      BY <1>0, <2>3 DEF LimiterTypeOK, Entry
    <3>2. now - entries[ip].since >= Window
      BY <1>0, <2>3, <3>1, LimiterAssumption DEF IsKept, Entry
    <3>3. Forgotten(passed[ip], now)
      BY <1>0, <2>0, <2>3, <3>1, <3>2, OverForgotten DEF FlowKept
    <3> QED BY <1>0, <2>0, <2>3, <3>3 DEF FlowKept
  <2> QED BY <2>1, <2>2, <2>3
<1> QED BY <1>1, <1>2 DEF LimiterInv

LEMMA TickKept ==
  ASSUME LimiterInv, LimiterTick
  PROVE  LimiterInv'
<1>0. /\ LimiterTypeOK /\ now \in 0..MaxNow /\ now + 1 \in 0..MaxNow /\ now' = now + 1
      /\ UNCHANGED <<entries, passed>>
  BY LimiterAssumption DEF LimiterInv, LimiterTypeOK, LimiterTick
<1>1. LimiterTypeOK'
  <2>1. entries \in [DOMAIN entries -> [count : 1..Limit, since : 0..now']]
    BY <1>0 DEF LimiterTypeOK
  <2> QED BY <1>0, <2>1 DEF LimiterTypeOK, Instants
<1>2. ASSUME NEW ip \in Addresses PROVE FlowKept(ip)'
  <2> DEFINE p == passed[ip]
  <2>0. /\ Counted(p, now) /\ Bounded(p, now) /\ p \in [Instants -> Nat]
        /\ passed'[ip] = p
        /\ ip \in DOMAIN entries => Followed(p, now, entries[ip])
        /\ ip \notin DOMAIN entries => Forgotten(p, now)
    BY <1>0 DEF LimiterInv, FlowKept, LimiterTypeOK
  <2> HIDE DEF p
  <2>1. /\ \A t \in Instants : t \in Nat /\ p[t] \in Nat
        /\ now + 2 \in Instants /\ p[now + 2] = p[now + 1]
    <3>1. now + 2 \in Instants /\ now \in Nat
      BY <1>0, Times
    <3> QED BY <1>0, <2>0, <3>1, Times DEF Counted
  <2>2. Counted(p, now + 1)
    <3>1. ASSUME NEW u \in Instants, u > now + 1 PROVE p[u] = p[now + 2]
      BY <1>0, <2>0, <2>1, <3>1, Times DEF Counted
    <3> QED BY <1>0, <2>0, <3>1 DEF Counted
  <2>3. Bounded(p, now + 1)
    <3> SUFFICES ASSUME NEW t \in 0..(now + 2), NEW u \in 0..(now + 2),
                        t <= u, u <= t + Window
                 PROVE  p[u] - p[t] <= 2 * Limit
      BY <1>0 DEF Bounded
    <3>0. t \in Nat /\ u \in Nat /\ t \in Instants /\ u \in Instants /\ now \in Nat
      BY <1>0, <2>1, Times
    <3>1. CASE u <= now + 1
      BY <2>0, <3>0, <3>1 DEF Bounded
    <3>2. CASE u = now + 2 /\ t = now + 2
      BY <1>0, <2>1, <3>0, <3>2, Times
    <3>3. CASE u = now + 2 /\ t <= now + 1
      <4>1. now + 1 \in 0..(now + 1) /\ t \in 0..(now + 1) /\ now + 1 <= t + Window
        BY <1>0, <3>0, <3>3, Times
      <4>2. p[now + 1] - p[t] <= 2 * Limit
        BY <2>0, <3>3, <4>1 DEF Bounded
      <4> QED BY <2>1, <3>3, <4>2
    <3> QED BY <3>0, <3>1, <3>2, <3>3
  <2>4. ip \in DOMAIN entries => Followed(p, now + 1, entries[ip])
    BY <1>0, <2>0, <2>1 DEF Followed
  <2>5. ip \notin DOMAIN entries => Forgotten(p, now + 1)
    <3> SUFFICES ASSUME Forgotten(p, now) PROVE Forgotten(p, now + 1)
      BY <2>0
    <3>1. ASSUME NEW t \in Instants, (now + 1) - Window < t PROVE p[now + 2] <= p[t] + Limit
      <4>1. now - Window < t
        BY <1>0, <2>1, <3>1, Times
      <4> QED BY <2>1, <4>1 DEF Forgotten
    <3> QED BY <1>0, <2>1, <3>1 DEF Forgotten
  <2> QED BY <1>0, <2>0, <2>2, <2>3, <2>4, <2>5 DEF FlowKept
<1> QED BY <1>1, <1>2 DEF LimiterInv

LEMMA LimiterNextKept == LimiterInv /\ [LimiterNext]_limiterVars => LimiterInv'
<1> SUFFICES ASSUME LimiterInv, [LimiterNext]_limiterVars PROVE LimiterInv'
  OBVIOUS
<1>1. CASE UNCHANGED limiterVars
  BY <1>1
  DEF limiterVars, LimiterInv, LimiterTypeOK, FlowKept, Counted, Followed, Forgotten, Bounded,
      Instants
<1> QED BY <1>1, AdmitKept, CleanupKept, TickKept DEF LimiterNext

(* For every limit, window and number of addresses, and whatever is        *)
(* cleaned up meanwhile: no second of an address lets more than twice the  *)
(* limit through (api.rs, IpRateLimiter::check and cleanup).               *)
THEOREM BurstsAreBounded == LimiterSpec => []BurstBounded
<1>1. LimiterInv => BurstBounded
  BY DEF LimiterInv, FlowKept, Bounded, BurstBounded
<1> QED BY <1>1, LimiterInit_Inv, LimiterNextKept, PTL DEF LimiterSpec

-----------------------------------------------------------------------------
(* The cron scheduler.                                                     *)

(* A set of natural numbers has a smallest one: of the initial segments    *)
(* they end, which are finite, one contains no other.                      *)
LEMMA Smallest ==
  ASSUME NEW S \in SUBSET Nat, S # {}
  PROVE  \E n \in S : \A m \in S : n <= m
<1> DEFINE T == {1..n : n \in S}
<1>1. T \subseteq FiniteSubsetsOf(Nat) /\ T # {}
  <2>1. \A n \in Nat : IsFiniteSet(1..n) /\ 1..n \in SUBSET Nat
    BY FS_Interval
  <2> QED BY <2>1 DEF FiniteSubsetsOf
<1>2. PICK X \in T : \A Y \in T : <<Y, X>> \notin StrictSubsetOrdering(Nat)
  BY <1>1, FS_StrictSubsetOrderingWellFounded, WFMin
<1>3. PICK n \in S : X = 1..n
  OBVIOUS
<1>4. ASSUME NEW m \in S, m < n PROVE FALSE
  <2>1. 1..m \in SUBSET Nat /\ X \in SUBSET Nat
    BY <1>3
  <2>2. 1..m \subseteq 1..n /\ n \in 1..n /\ n \notin 1..m
    BY <1>4
  <2>3. <<1..m, X>> \in StrictSubsetOrdering(Nat)
    BY <1>3, <2>1, <2>2 DEF StrictSubsetOrdering
  <2> QED BY <1>2, <2>3
<1> QED BY <1>4

(* Occurrences on whole seconds lie a second apart at least, and one that  *)
(* is on the minute separates the minutes before and after it.             *)
LEMMA Apart ==
  ASSUME NEW S \in Nat \ {0}, NEW a \in Nat, NEW b \in Nat,
         a % S = 0, b % S = 0, a < b
  PROVE  a + S <= b
<1>1. a = S * (a \div S) /\ b = S * (b \div S) /\ a \div S \in Nat /\ b \div S \in Nat
  OBVIOUS
<1> DEFINE i == a \div S
           j == b \div S
<1>2. i \in Nat /\ j \in Nat /\ a = S * i /\ b = S * j
  BY <1>1
<1> HIDE DEF i, j
<1>3. i < j
  <2> SUFFICES ASSUME j <= i PROVE FALSE
    BY <1>2
  <2>1. S * j <= S * i
    BY <1>2
  <2> QED BY <1>2, <2>1
<1>4. S * (i + 1) <= S * j
  BY <1>2, <1>3
<1> QED BY <1>2, <1>4

LEMMA Separated ==
  ASSUME NEW M \in Nat \ {0}, NEW a \in Nat, NEW o \in Nat, NEW b \in Nat,
         o % M = 0, a < o, o <= b
  PROVE  a \div M # b \div M
<1> DEFINE i == a \div M
           k == o \div M
           j == b \div M
<1>1. /\ i \in Nat /\ k \in Nat /\ j \in Nat
      /\ M * i <= a /\ o = M * k /\ b < M * (j + 1)
  OBVIOUS
<1> HIDE DEF i, j, k
<1>2. ASSUME i = j PROVE FALSE
  <2>1. M * i < M * k /\ M * k < M * (i + 1)
    BY <1>1, <1>2
  <2>2. i < k
    BY <1>1, <2>1
  <2>3. k < i + 1
    BY <1>1, <2>1
  <2> QED BY <1>1, <2>2, <2>3
<1> QED BY <1>2 DEF i, j

LEMMA NextIsAnOccurrence ==
  ASSUME NEW O \in SUBSET Nat, O # {}
  PROVE  NextOccurrence(O) \in O
  BY Smallest DEF NextOccurrence

CronTypeOK ==
  /\ clock \in Nat
  /\ cron \in {"down", "plan", "asleep", "stopped", "pass", "fire"}
  /\ fireAt \in Nat /\ awake \in Nat /\ awake <= clock
  /\ due \subseteq Sources
  /\ cron \notin {"pass", "fire"} => due = {}
  /\ lastFired \in [Sources -> Nat \cup {-1}]
  /\ born \in Nat /\ born <= clock
  /\ passes \subseteq Nat
  /\ fires \subseteq [source : Sources, from : Int, to : Nat]
  /\ \A f \in fires : f.to <= clock

(* A sleep ends on a whole second after everything that has been fired.    *)
SleepKept ==
  cron \in {"asleep", "pass", "fire"} =>
    /\ fireAt % Second = 0 /\ born < fireAt
    /\ cron = "asleep" => \A f \in fires : f.to < fireAt
    /\ cron # "asleep" =>
         /\ fireAt <= awake
         /\ \A f \in fires : f.to < fireAt \/ (f.to = awake /\ f.source \notin due)

(* No firing looks back behind one that the task remembers, and no two     *)
(* cover the same occurrence.                                              *)
FiresApart ==
  /\ \A f \in fires : lastFired[f.source] # -1 => f.to <= lastFired[f.source]
  /\ \A s \in Sources : lastFired[s] <= clock
  /\ \A f, g \in fires : \A o \in Schedule[f.source] :
       Covers(f, f.source, o) /\ Covers(g, f.source, o) => f = g

CronInv == CronTypeOK /\ SleepKept /\ FiresApart

LEMMA Occurrences ==
  /\ \A s \in Sources : \A o \in Schedule[s] : o \in Nat /\ o % Second = 0
  /\ Second \in Nat \ {0} /\ Minute \in Nat \ {0}
  BY CronAssumption DEF Sources

LEMMA CronInit_Inv == CronInit => CronInv
  BY DEF CronInit, CronInv, CronTypeOK, SleepKept, FiresApart

(* Planning sets a time that is an occurrence after now, or stops.         *)
LEMMA PlanSleeps ==
  ASSUME CronTypeOK, Plan
  PROVE  /\ fireAt' \in Nat /\ cron' \in {"asleep", "stopped"}
         /\ cron' = "asleep" => fireAt' % Second = 0 /\ clock < fireAt'
<1> DEFINE O == UNION {Later(s, clock) : s \in Sources}
<1>1. \A o \in O : o \in Nat /\ o % Second = 0 /\ clock < o
  BY Occurrences DEF Later
<1>2. CASE O = {}
  BY <1>2 DEF Plan, NextOccurrence
<1>3. CASE O # {}
  <2>1. NextOccurrence(O) \in O
    BY <1>1, <1>3, NextIsAnOccurrence
  <2>2. fireAt' = NextOccurrence(O) /\ cron' = IF fireAt' = 0 THEN "stopped" ELSE "asleep"
    BY DEF Plan
  <2> HIDE DEF O
  <2> QED BY <1>1, <2>1, <2>2
<1> QED BY <1>2, <1>3

LEMMA PlanKept ==
  ASSUME CronInv, Plan, cron \in {"down", "plan"},
         \/ UNCHANGED <<born, lastFired, passes>>
         \/ born' = clock /\ lastFired' = [s \in Sources |-> -1] /\ passes' = {}
  PROVE  CronInv'
<1>1. CronTypeOK /\ FiresApart
  BY DEF CronInv
<1>2. /\ fireAt' \in Nat /\ cron' \in {"asleep", "stopped"}
      /\ cron' = "asleep" => fireAt' % Second = 0 /\ clock < fireAt'
      /\ UNCHANGED <<clock, awake, due, fires>>
  BY <1>1, PlanSleeps DEF Plan
<1>3. CronTypeOK'
  <2>1. born' \in Nat /\ born' <= clock
    BY <1>1 DEF CronTypeOK
  <2>2. lastFired' \in [Sources -> Nat \cup {-1}]
    <3>1. CASE UNCHANGED lastFired
      BY <1>1, <3>1 DEF CronTypeOK
    <3>2. CASE lastFired' = [s \in Sources |-> -1]
      BY <3>2
    <3> QED BY <3>1, <3>2
  <2>3. passes' \subseteq Nat
    BY <1>1 DEF CronTypeOK
  <2>4. due = {}
    BY <1>1 DEF CronTypeOK
  <2> QED BY <1>1, <1>2, <2>1, <2>2, <2>3, <2>4 DEF CronTypeOK
<1>4. SleepKept'
  BY <1>1, <1>2 DEF SleepKept, CronTypeOK
<1>5. FiresApart'
  <2>1. /\ \A f \in fires : f.source \in Sources
        /\ \A s \in Sources : lastFired'[s] = -1 \/ lastFired'[s] = lastFired[s]
    BY <1>1 DEF CronTypeOK
  <2>2. \A s \in Sources : lastFired'[s] <= clock
    BY <1>1, <2>1 DEF FiresApart, CronTypeOK
  <2> QED BY <1>1, <1>2, <2>1, <2>2 DEF FiresApart, Covers
<1> QED BY <1>3, <1>4, <1>5 DEF CronInv

LEMMA WakeKept ==
  ASSUME CronInv, Wake
  PROVE  CronInv'
<1>1. CronTypeOK'
  BY DEF CronInv, CronTypeOK, Wake
<1>2. SleepKept'
  BY DEF CronInv, CronTypeOK, SleepKept, Wake
<1>3. FiresApart'
  BY DEF CronInv, FiresApart, Covers, Wake
<1> QED BY <1>1, <1>2, <1>3 DEF CronInv

(* A source that fires covers what nothing has covered before: behind its  *)
(* last firing, or within the second before now, of which the start of the *)
(* sleep and thus all earlier firings are more than a second away.         *)
LEMMA NewlyCovered ==
  ASSUME CronInv, NEW s \in due, cron = "pass",
         NEW g \in fires, g.source = s, NEW o \in Schedule[s], o <= g.to
  PROVE  o <= Base(s)
<1>0. /\ CronTypeOK /\ SleepKept /\ FiresApart /\ s \in Sources
      /\ g.to \in Nat /\ awake \in Nat /\ fireAt \in Nat /\ o \in Nat /\ o % Second = 0
      /\ lastFired[s] \in Nat \cup {-1} /\ Second \in Nat \ {0}
  BY Occurrences DEF CronInv, CronTypeOK
<1>1. CASE lastFired[s] = -1
  <2>1. g.to < fireAt /\ fireAt <= awake /\ fireAt % Second = 0
    BY <1>0 DEF SleepKept
  <2>2. o < fireAt
    BY <1>0, <2>1
  <2>3. o + Second <= fireAt
    BY <1>0, <2>1, <2>2, Apart
  <2> QED BY <1>0, <1>1, <2>1, <2>3 DEF Base
<1>2. CASE lastFired[s] # -1
  BY <1>0, <1>2 DEF FiresApart, Base
<1> QED BY <1>1, <1>2

LEMMA CheckKept ==
  ASSUME CronInv, NEW s \in Sources, CheckSource(s)
  PROVE  CronInv'
<1>0. /\ CronTypeOK /\ SleepKept /\ FiresApart /\ cron = "pass" /\ s \in due
      /\ due' = due \ {s} /\ UNCHANGED <<clock, fireAt, awake, outages, born, passes>>
  BY DEF CronInv, CheckSource
<1>1. CASE ~IsDue(s)
  <2>1. UNCHANGED <<cron, lastFired, fires>>
    BY <1>1 DEF CheckSource
  <2> QED BY <1>0, <2>1 DEF CronInv, CronTypeOK, SleepKept, FiresApart, Covers
<1>2. CASE IsDue(s)
  <2> DEFINE f == [source |-> s, from |-> Base(s), to |-> awake]
  <2>1. /\ cron' = "fire" /\ lastFired' = [lastFired EXCEPT ![s] = awake]
        /\ fires' = fires \cup {f}
    BY <1>2 DEF CheckSource
  <2>2. /\ f \in [source : Sources, from : Int, to : Nat]
        /\ f.source = s /\ f.from = Base(s) /\ f.to = awake
    BY <1>0, Occurrences DEF CronTypeOK, Base
  <2> HIDE DEF f
  <2>3. CronTypeOK'
    BY <1>0, <2>1, <2>2 DEF CronTypeOK
  <2>4. SleepKept'
    BY <1>0, <2>1, <2>2 DEF SleepKept, CronTypeOK
  <2>5. \A g \in fires' : lastFired'[g.source] # -1 => g.to <= lastFired'[g.source]
    <3> SUFFICES ASSUME NEW g \in fires', lastFired'[g.source] # -1
                 PROVE  g.to <= lastFired'[g.source]
      OBVIOUS
    <3>1. CASE g = f
      BY <1>0, <2>1, <2>2, <3>1 DEF CronTypeOK
    <3>2. CASE g \in fires /\ g.source # s
      BY <1>0, <2>1, <3>2 DEF CronTypeOK, FiresApart
    <3>3. CASE g \in fires /\ g.source = s
      <4>1. g.to <= awake /\ lastFired'[s] = awake
        BY <1>0, <2>1, <3>3 DEF CronTypeOK, SleepKept
      <4> QED BY <3>3, <4>1
    <3> QED BY <2>1, <3>1, <3>2, <3>3
  <2>6. \A k \in Sources : lastFired'[k] <= clock
    BY <1>0, <2>1 DEF CronTypeOK, FiresApart
  <2>7. ASSUME NEW g \in fires, NEW o \in Schedule[s],
               Covers(f, s, o), Covers(g, s, o)
        PROVE  FALSE
    <3>1. o <= Base(s)
      BY <1>0, <2>7, NewlyCovered DEF CronInv, Covers
    <3> QED BY <1>0, <2>2, <2>7, <3>1, Occurrences DEF Covers
  <2>8. ASSUME NEW g \in fires', NEW h \in fires', NEW o \in Schedule[g.source],
               Covers(g, g.source, o), Covers(h, g.source, o)
        PROVE  g = h
    <3>1. CASE g \in fires /\ h \in fires
      BY <1>0, <2>8, <3>1 DEF FiresApart
    <3>2. CASE g = f /\ h \in fires
      BY <2>2, <2>7, <2>8, <3>2
    <3>3. CASE g \in fires /\ h = f
      BY <2>2, <2>7, <2>8, <3>3 DEF Covers
    <3> QED BY <2>1, <3>1, <3>2, <3>3
  <2>9. FiresApart'
    BY <1>0, <2>5, <2>6, <2>8 DEF FiresApart, Covers
  <2> QED BY <2>3, <2>4, <2>9 DEF CronInv
<1> QED BY <1>1, <1>2

LEMMA CronNextKept == CronInv /\ [CronNext]_cronVars => CronInv'
<1> SUFFICES ASSUME CronInv, [CronNext]_cronVars PROVE CronInv'
  OBVIOUS
<1> USE DEF CronInv, CronTypeOK, SleepKept, FiresApart, Covers
<1>1. CASE TimePasses
  BY <1>1 DEF TimePasses
<1>2. CASE StartScheduler
  BY <1>2, PlanKept DEF StartScheduler
<1>3. CASE PlanNext
  BY <1>3, PlanKept DEF PlanNext
<1>4. CASE EndTick \/ TickFails
  BY <1>4 DEF EndTick, TickFails
<1>5. CASE EndPass
  BY <1>5 DEF EndPass
<1>6. CASE StopScheduler
  BY <1>6 DEF StopScheduler
<1>7. CASE UNCHANGED cronVars
  BY <1>7 DEF cronVars
<1> QED BY <1>1, <1>2, <1>3, <1>4, <1>5, <1>6, <1>7, WakeKept, CheckKept DEF CronNext

(* No occurrence is fired twice, for any schedules on whole seconds: what  *)
(* a restarted scheduler looks back on begins after everything its         *)
(* predecessor has fired (cron.rs, run).                                   *)
THEOREM FiringsAreSingle == CronSpec => []FiresOnce
<1>1. CronInv => FiresOnce
  <2> SUFFICES ASSUME CronInv, NEW s \in Sources, NEW o \in Schedule[s]
               PROVE  Cardinality({f \in fires : Covers(f, s, o)}) <= 1
    BY DEF FiresOnce
  <2> DEFINE F == {f \in fires : Covers(f, s, o)}
  <2>1. \A f, g \in F : f = g
    BY DEF CronInv, FiresApart, Covers
  <2>2. F = {} \/ \E f : F = {f}
    BY <2>1
  <2> HIDE DEF F
  <2>3. Cardinality(F) = 0 \/ Cardinality(F) = 1
    BY <2>2, FS_EmptySet, FS_Singleton
  <2> QED BY <2>3 DEF F
<1> QED BY <1>1, CronInit_Inv, CronNextKept, PTL DEF CronSpec

(* The passes that have come to the source.                                *)
Seen(s) == {p \in passes : s \in due => p < awake}

Near(p, o) == o <= p /\ p < o + Second

(* The firings of this task cover everything from the second before the    *)
(* first of them, at b, to the last, no pass before b came near an         *)
(* occurrence, and none has left out one that is on the minute.            *)
Linked(s, b) ==
  /\ b <= lastFired[s]
  /\ \A f \in fires : f.source = s /\ born < f.to => b <= f.to
  /\ \A o \in Schedule[s] : b - Second < o /\ o <= lastFired[s] =>
       \E f \in fires : Covers(f, s, o)
  /\ \A p \in Seen(s) : \A o \in Schedule[s] :
       /\ Near(p, o) => b <= p
       /\ OnTheMinute(s) /\ o <= p => o <= lastFired[s]

(* Before it has fired, no pass came near an occurrence.                   *)
Unfired(s) ==
  /\ \A f \in fires : f.source = s => f.to <= born
  /\ \A p \in Seen(s) : \A o \in Schedule[s] : ~Near(p, o)

ChainKept(s) ==
  IF lastFired[s] = -1 THEN Unfired(s) ELSE \E b \in Nat : Linked(s, b)

DueInv ==
  /\ CronInv
  /\ cron # "down" =>
       /\ \A p \in passes : p <= awake
       /\ \A s \in Sources : lastFired[s] <= awake /\ ChainKept(s)

(* What a source has been through stays while its passes and firings do.   *)
LEMMA ChainSame ==
  ASSUME NEW s \in Sources, ChainKept(s), UNCHANGED <<lastFired, born, fires>>,
         Seen(s)' \subseteq Seen(s)
  PROVE  ChainKept(s)'
  BY DEF ChainKept, Unfired, Linked, Covers, Near, OnTheMinute

(* A source that is not due leaves nothing out.                            *)
LEMMA NotDueKept ==
  ASSUME DueInv, NEW s \in due, cron = "pass", ~IsDue(s),
         UNCHANGED <<awake, lastFired, born, passes, fires>>, due' = due \ {s}
  PROVE  ChainKept(s)'
<1>0. /\ CronInv /\ ChainKept(s) /\ s \in Sources
      /\ lastFired[s] \in Nat \cup {-1} /\ lastFired[s] <= clock
      /\ \A o \in Schedule[s] : o \in Nat
      /\ awake \in Nat /\ Second \in Nat \ {0} /\ Minute \in Nat \ {0}
      /\ passes \subseteq Nat
  BY Occurrences DEF DueInv, CronInv, CronTypeOK, FiresApart
<1>1. \A p \in Seen(s)' : p \in Seen(s) \/ p = awake
  <2>1. \A p \in passes : p <= awake
    BY DEF DueInv
  <2>2. \A p \in passes : p < awake \/ p = awake
    BY <1>0, <2>1
  <2> QED BY <2>2 DEF Seen
<1>2. CASE lastFired[s] = -1
  <2>1. \A o \in Schedule[s] : ~Near(awake, o)
    BY <1>0, <1>2 DEF IsDue, Later, Base, Near
  <2>2. Unfired(s)
    BY <1>0, <1>2 DEF ChainKept
  <2>3. Unfired(s)'
    BY <1>1, <2>1, <2>2 DEF Unfired
  <2> QED BY <1>2, <2>3 DEF ChainKept
<1>3. CASE lastFired[s] # -1
  <2>1. PICK b \in Nat : Linked(s, b)
    BY <1>0, <1>3 DEF ChainKept
  <2>2. ASSUME NEW o \in Schedule[s], OnTheMinute(s), o <= awake PROVE o <= lastFired[s]
    <3> SUFFICES ASSUME lastFired[s] < o PROVE FALSE
      BY <1>0
    <3>1. MinuteOf(lastFired[s]) # MinuteOf(awake)
      BY <1>0, <1>3, <2>2, Separated DEF OnTheMinute, MinuteOf
    <3> QED BY <1>0, <1>3, <2>2, <3>1 DEF IsDue, Later, Base
  <2>3. b <= awake
    <3>1. lastFired[s] <= awake
      BY <1>0 DEF DueInv
    <3> QED BY <1>0, <1>3, <2>1, <3>1 DEF Linked
  <2>4. Linked(s, b)'
    BY <1>1, <2>1, <2>2, <2>3 DEF Linked, Covers, Near, OnTheMinute
  <2> QED BY <1>3, <2>4 DEF ChainKept
<1> QED BY <1>2, <1>3

(* A source that is due begins its chain or lengthens it.                  *)
LEMMA DueKept ==
  ASSUME DueInv, NEW s \in due, cron = "pass", UNCHANGED <<awake, born, passes>>,
         due' = due \ {s}, lastFired' = [lastFired EXCEPT ![s] = awake],
         fires' = fires \cup {[source |-> s, from |-> Base(s), to |-> awake]}
  PROVE  ChainKept(s)'
<1> DEFINE new == [source |-> s, from |-> Base(s), to |-> awake]
<1>0. /\ CronInv /\ ChainKept(s) /\ s \in Sources /\ lastFired'[s] = awake
      /\ lastFired[s] \in Nat \cup {-1} /\ lastFired[s] <= awake
      /\ awake \in Nat /\ Second \in Nat \ {0} /\ born \in Nat /\ born < awake
      /\ passes \subseteq Nat /\ \A p \in passes : p <= awake
      /\ \A o \in Schedule[s] : o \in Nat
      /\ \A f \in fires : f.from \in Int /\ f.to \in Nat
      /\ fires' = fires \cup {new} /\ new.source = s /\ new.from = Base(s) /\ new.to = awake
  BY Occurrences DEF DueInv, CronInv, CronTypeOK, SleepKept
<1> HIDE DEF new
<1>1. \A p \in Seen(s)' : p \in Seen(s) \/ p = awake
  <2>1. \A p \in passes : p < awake \/ p = awake
    BY <1>0
  <2> QED BY <2>1 DEF Seen
<1>2. lastFired'[s] # -1
  BY <1>0
<1>3. CASE lastFired[s] = -1
  <2>1. Unfired(s) /\ Base(s) = awake - Second
    BY <1>0, <1>3 DEF ChainKept, Base
  <2>2. Linked(s, awake)'
    <3>1. ASSUME NEW f \in fires', f.source = s, born < f.to PROVE awake <= f.to
      BY <1>0, <2>1, <3>1 DEF Unfired
    <3>2. ASSUME NEW o \in Schedule[s], awake - Second < o, o <= awake
          PROVE  Covers(new, s, o)
      BY <1>0, <2>1, <3>2 DEF Covers
    <3>3. ASSUME NEW p \in Seen(s)', NEW o \in Schedule[s], Near(p, o) PROVE awake <= p
      BY <1>0, <1>1, <2>1, <3>3 DEF Unfired
    <3>4. ASSUME NEW p \in Seen(s)', NEW o \in Schedule[s], o <= p PROVE o <= awake
      <4>1. p \in Nat /\ p <= awake
        BY <1>0 DEF Seen
      <4> QED BY <1>0, <3>4, <4>1
    <3> QED BY <1>0, <3>1, <3>2, <3>3, <3>4 DEF Linked, Covers, OnTheMinute
  <2> QED BY <1>0, <1>2, <2>2 DEF ChainKept
<1>4. CASE lastFired[s] # -1
  <2>1. PICK b \in Nat : Linked(s, b)
    BY <1>0, <1>4 DEF ChainKept
  <2>2. b <= lastFired[s] /\ b <= awake /\ Base(s) = lastFired[s]
    BY <1>0, <1>4, <2>1 DEF Linked, Base
  <2>3. Linked(s, b)'
    <3>1. ASSUME NEW f \in fires', f.source = s, born < f.to PROVE b <= f.to
      BY <1>0, <2>1, <2>2, <3>1 DEF Linked
    <3>2. ASSUME NEW o \in Schedule[s], b - Second < o, o <= awake
          PROVE  \E f \in fires' : Covers(f, s, o)
      <4>1. CASE o <= lastFired[s]
        BY <1>0, <2>1, <3>2, <4>1 DEF Linked
      <4>2. CASE lastFired[s] < o
        BY <1>0, <2>2, <3>2, <4>2 DEF Covers
      <4> QED BY <1>0, <4>1, <4>2
    <3>3. ASSUME NEW p \in Seen(s)', NEW o \in Schedule[s], Near(p, o) PROVE b <= p
      BY <1>0, <1>1, <2>1, <2>2, <3>3 DEF Linked
    <3>4. ASSUME NEW p \in Seen(s)', NEW o \in Schedule[s], o <= p PROVE o <= awake
      <4>1. p \in Nat /\ p <= awake
        BY <1>0 DEF Seen
      <4> QED BY <1>0, <3>4, <4>1
    <3> QED BY <1>0, <2>2, <3>1, <3>2, <3>3, <3>4 DEF Linked, Covers, OnTheMinute
  <2> QED BY <1>2, <2>3 DEF ChainKept
<1> QED BY <1>3, <1>4

(* What another source fires does not concern it.                          *)
LEMMA OtherKept ==
  ASSUME NEW s \in Sources, NEW k \in Sources \ {s}, ChainKept(k),
         NEW f, f.source = s, fires' \in {fires, fires \cup {f}},
         lastFired'[k] = lastFired[k], due' = due \ {s}, UNCHANGED <<awake, born, passes>>
  PROVE  ChainKept(k)'
<1>1. /\ Seen(k)' = Seen(k) /\ f.source # k
      /\ \A g \in fires' : g.source = k => g \in fires
      /\ \A g \in fires : g \in fires'
  BY DEF Seen
<1>2. CASE lastFired[k] = -1
  BY <1>1, <1>2 DEF ChainKept, Unfired
<1>3. CASE lastFired[k] # -1
  <2>1. PICK b \in Nat : Linked(k, b)
    BY <1>3 DEF ChainKept
  <2>2. Linked(k, b)'
    BY <1>1, <2>1 DEF Linked, Near, OnTheMinute
  <2> QED BY <1>3, <2>2 DEF ChainKept
<1> QED BY <1>2, <1>3

LEMMA CheckDue ==
  ASSUME DueInv, NEW s \in Sources, CheckSource(s)
  PROVE  DueInv'
<1>0. /\ CronInv' /\ CronTypeOK /\ cron = "pass" /\ cron' # "down" /\ s \in due
      /\ due' = due \ {s} /\ UNCHANGED <<awake, born, passes>>
      /\ \A p \in passes : p <= awake
      /\ \A k \in Sources : lastFired[k] <= awake /\ ChainKept(k)
      /\ awake \in Nat
  BY CheckKept DEF DueInv, CronInv, CronTypeOK, CheckSource
<1>1. CASE ~IsDue(s)
  <2>1. UNCHANGED <<cron, lastFired, fires>>
    BY <1>1 DEF CheckSource
  <2>2. ChainKept(s)'
    BY <1>0, <1>1, <2>1, NotDueKept
  <2>3. ASSUME NEW k \in Sources \ {s} PROVE ChainKept(k)'
    <3>1. [source |-> s].source = s
      OBVIOUS
    <3> QED BY <1>0, <2>1, <3>1, OtherKept
  <2> QED BY <1>0, <2>1, <2>2, <2>3 DEF DueInv
<1>2. CASE IsDue(s)
  <2> DEFINE f == [source |-> s, from |-> Base(s), to |-> awake]
  <2>1. lastFired' = [lastFired EXCEPT ![s] = awake] /\ fires' = fires \cup {f}
    BY <1>2 DEF CheckSource
  <2>2. ChainKept(s)'
    BY <1>0, <2>1, DueKept
  <2>3. ASSUME NEW k \in Sources \ {s} PROVE ChainKept(k)'
    <3>1. f.source = s /\ lastFired'[k] = lastFired[k]
      BY <1>0, <2>1 DEF CronTypeOK
    <3> HIDE DEF f
    <3> QED BY <1>0, <2>1, <3>1, OtherKept
  <2>4. \A k \in Sources : lastFired'[k] <= awake
    BY <1>0, <2>1 DEF CronTypeOK
  <2> QED BY <1>0, <2>2, <2>3, <2>4 DEF DueInv
<1> QED BY <1>1, <1>2

LEMMA StartDue ==
  ASSUME DueInv, StartScheduler
  PROVE  DueInv'
<1>1. /\ CronInv' /\ CronTypeOK /\ passes' = {} /\ born' = clock /\ UNCHANGED <<awake, fires>>
      /\ lastFired' = [s \in Sources |-> -1] /\ awake \in Nat
      /\ \A f \in fires : f.to <= clock
  BY CronNextKept DEF DueInv, CronInv, CronTypeOK, CronNext, StartScheduler, Plan
<1>2. ASSUME NEW s \in Sources PROVE lastFired'[s] = -1 /\ ChainKept(s)'
  BY <1>1 DEF ChainKept, Unfired, Seen
<1>3. -1 <= awake
  BY <1>1
<1> QED BY <1>1, <1>2, <1>3 DEF DueInv

LEMMA WakeDue ==
  ASSUME DueInv, Wake
  PROVE  DueInv'
<1>0. /\ CronInv' /\ CronTypeOK /\ due = {} /\ awake' = clock /\ passes' = passes \cup {clock}
      /\ due' = Sources /\ UNCHANGED <<lastFired, born, fires>> /\ clock \in Nat
      /\ \A p \in passes : p <= awake
      /\ \A s \in Sources : lastFired[s] <= awake /\ ChainKept(s)
      /\ awake <= clock /\ awake \in Nat /\ passes \subseteq Nat
  BY WakeKept DEF DueInv, CronInv, CronTypeOK, Wake
<1>1. \A p \in passes' : p <= clock
  BY <1>0
<1>2. ASSUME NEW s \in Sources PROVE lastFired[s] <= clock /\ ChainKept(s)'
  <2>1. Seen(s)' \subseteq Seen(s)
    BY <1>0 DEF Seen
  <2>2. lastFired[s] \in Nat \cup {-1}
    BY <1>0 DEF CronTypeOK
  <2> QED BY <1>0, <2>1, <2>2, ChainSame
<1> QED BY <1>0, <1>1, <1>2 DEF DueInv

LEMMA DueNextKept == DueInv /\ [CronNext]_cronVars => DueInv'
<1> SUFFICES ASSUME DueInv, [CronNext]_cronVars PROVE DueInv'
  OBVIOUS
<1>0. CronInv'
  BY CronNextKept DEF DueInv
<1>1. ASSUME UNCHANGED <<awake, lastFired, born, passes, fires>>, due' = due,
             cron' # "down" => cron # "down"
      PROVE  DueInv'
  <2>1. \A s \in Sources : Seen(s)' = Seen(s)
    BY <1>1 DEF Seen
  <2> QED BY <1>0, <1>1, <2>1, ChainSame DEF DueInv
<1>2. CASE TimePasses
  BY <1>1, <1>2 DEF TimePasses
<1>3. CASE PlanNext
  BY <1>1, <1>3 DEF PlanNext, Plan
<1>4. CASE EndTick \/ TickFails
  BY <1>1, <1>4 DEF EndTick, TickFails
<1>5. CASE EndPass
  BY <1>1, <1>5 DEF EndPass
<1>6. CASE StopScheduler
  BY <1>0, <1>6 DEF StopScheduler, DueInv
<1>7. CASE UNCHANGED cronVars
  BY <1>1, <1>7 DEF cronVars
<1> QED BY <1>2, <1>3, <1>4, <1>5, <1>6, <1>7, StartDue, WakeDue, CheckDue DEF CronNext

(* No occurrence of a five-field schedule is left out that a pass of the   *)
(* task came near, or that follows a firing of its source, however late    *)
(* the passes come and however long the ticks of other sources take        *)
(* (cron.rs, run and its second of tolerance).                             *)
THEOREM NoneIsLeftOut == CronSpec => []DueIsFired
<1>1. DueInv => DueIsFired
  <2> SUFFICES ASSUME DueInv, cron = "asleep", NEW s \in Sources, OnTheMinute(s),
                      NEW o \in Schedule[s], NEW p \in passes, o <= p, born < o,
                      Caught(s, o)
               PROVE  \E f \in fires : Covers(f, s, o)
    BY DEF DueIsFired
  <2>0. /\ CronTypeOK /\ due = {} /\ ChainKept(s) /\ Seen(s) = passes /\ o \in Nat
        /\ passes \subseteq Nat /\ born \in Nat /\ Second \in Nat
        /\ lastFired[s] \in Nat \cup {-1}
        /\ \A f \in fires : f.to \in Nat
    BY Occurrences DEF DueInv, CronInv, CronTypeOK, Seen
  <2>1. lastFired[s] # -1
    <3>1. CASE \E q \in passes : o <= q /\ q < o + Second
      BY <2>0, <3>1 DEF ChainKept, Unfired, Near
    <3>2. CASE \E f \in fires : f.source = s /\ born < f.to /\ f.to < o
      BY <2>0, <3>2 DEF ChainKept, Unfired
    <3> QED BY <3>1, <3>2 DEF Caught
  <2>2. PICK b \in Nat : Linked(s, b)
    BY <2>0, <2>1 DEF ChainKept
  <2>3. b - Second < o
    <3>1. CASE \E q \in passes : o <= q /\ q < o + Second
      BY <2>0, <2>2, <3>1 DEF Linked, Near
    <3>2. CASE \E f \in fires : f.source = s /\ born < f.to /\ f.to < o
      BY <2>0, <2>2, <3>2 DEF Linked
    <3> QED BY <3>1, <3>2 DEF Caught
  <2>4. o <= lastFired[s]
    BY <2>0, <2>2 DEF Linked
  <2> QED BY <2>2, <2>3, <2>4 DEF Linked
<1>2. CronInit => DueInv
  BY CronInit_Inv DEF DueInv, CronInit
<1> QED BY <1>1, <1>2, DueNextKept, PTL DEF CronSpec

-----------------------------------------------------------------------------
(* The migrations.                                                         *)

Had(v) == ObjectsOf(v) \subseteq schema

(* What each process has seen to: the versions before the one it read or   *)
(* applies, and that one's statements before its own.                      *)
SeenTo(p) ==
  LET v == starter[p].version
  IN  /\ starter[p].pc = "events" => \A u \in 1..v : Had(u)
      /\ starter[p].pc = "apply" =>
           /\ \A u \in 1..(v - 1) : Had(u)
           /\ \A k \in 1..(starter[p].statement - 1) : Migrations[v][k].name \in schema
      /\ starter[p].pc \in {"adopt", "ready"} => Complete

MigrationTypeOK ==
  /\ versions \subseteq Versions
  /\ starter \in [Starters -> Starter]
  /\ ignored \in BOOLEAN /\ mistaken \in BOOLEAN /\ misread \in BOOLEAN
  /\ \A p \in Starters :
       /\ starter[p].pc \in {"adopt", "apply"} => starter[p].version \in Versions
       /\ starter[p].pc = "events" => starter[p].version \in Versions \cup {0}

(* A version that is recorded has been seen to, with those before it.      *)
RecordedIsThere ==
  /\ \A v \in versions : \A u \in 1..v : Had(u)
  /\ \A p \in Starters : SeenTo(p)

(* With versions that are read, no process looks for an old database.      *)
TrackedIsRead ==
  /\ tracked => versions # {}
  /\ tracked /\ ~misread =>
       /\ ~mistaken
       /\ \A p \in Starters : starter[p].pc = "events" => starter[p].version # 0

MigrationInv ==
  /\ MigrationTypeOK
  /\ ignored \/ mistaken \/ RecordedIsThere
  /\ TrackedIsRead

LEMMA Scripts ==
  /\ Versions = 1..4 /\ Len(Migrations) = 4
  /\ \A v \in Versions :
       /\ Len(Migrations[v]) \in 3..5 /\ DOMAIN Migrations[v] = 1..Len(Migrations[v])
       /\ ObjectsOf(v) = {Migrations[v][k].name : k \in 1..Len(Migrations[v])}
<1>1. Versions = 1..4 /\ Len(Migrations) = 4
  BY DEF Versions, Migrations
<1>2. ASSUME NEW v \in Versions
      PROVE Len(Migrations[v]) \in 3..5 /\ DOMAIN Migrations[v] = 1..Len(Migrations[v])
  <2>1. CASE v = 1
    BY <2>1 DEF Migrations
  <2>2. CASE v = 2
    BY <2>2 DEF Migrations
  <2>3. CASE v = 3
    BY <2>3 DEF Migrations
  <2>4. CASE v = 4
    BY <2>4 DEF Migrations
  <2> QED BY <1>1, <2>1, <2>2, <2>3, <2>4
<1>3. ASSUME NEW v \in Versions
      PROVE  ObjectsOf(v) = {Migrations[v][k].name : k \in 1..Len(Migrations[v])}
  <2>1. ObjectsOf(v) = {s.name : s \in {Migrations[v][k] : k \in 1..Len(Migrations[v])}}
    BY <1>2 DEF ObjectsOf, Range
  <2> QED BY <2>1
<1> QED BY <1>1, <1>2, <1>3

LEMMA CompleteHad == Complete <=> \A v \in Versions : Had(v)
  BY DEF Complete, Had

LEMMA MigrationInit_Inv == MigrationInit => MigrationInv
<1> SUFFICES ASSUME MigrationInit PROVE MigrationInv
  OBVIOUS
<1>1. PICK v \in 0..4, t \in BOOLEAN :
        /\ schema = UNION {ObjectsOf(u) : u \in 1..v}
        /\ versions = IF t THEN 1..v ELSE {}
        /\ tracked = (t /\ v # 0)
  BY DEF MigrationInit
<1>2. \A p \in Starters : starter[p] = Down
  BY DEF MigrationInit
<1>3. MigrationTypeOK
  <2>1. versions \subseteq Versions
    BY <1>1, Scripts
  <2>2. Down \in Starter /\ starter = [p \in Starters |-> Down]
    BY Scripts DEF MigrationInit, Starter, Down
  <2>3. ignored = FALSE /\ mistaken = FALSE /\ misread = FALSE
    BY DEF MigrationInit
  <2> QED BY <1>2, <2>1, <2>2, <2>3 DEF MigrationTypeOK, Down
<1>4. RecordedIsThere
  BY <1>1, <1>2 DEF RecordedIsThere, SeenTo, Had, Down
<1>5. tracked => versions # {}
  <2>1. tracked => t /\ v # 0
    BY <1>1
  <2>2. t /\ v # 0 => 1 \in versions
    BY <1>1
  <2> QED BY <2>1, <2>2
<1> QED BY <1>2, <1>3, <1>4, <1>5 DEF MigrationInit, MigrationInv, TrackedIsRead, Down

(* What is there stays there: a step of one process leaves what the others *)
(* have seen to.                                                           *)
LEMMA OthersSeenTo ==
  ASSUME RecordedIsThere, schema \subseteq schema', NEW p \in Starters,
         \A r \in Starters \ {p} : starter'[r] = starter[r],
         SeenTo(p)', \A v \in versions' \ versions : \A u \in 1..v : Had(u)'
  PROVE  RecordedIsThere'
<1>1. \A v : Had(v) => Had(v)'
  BY DEF Had
<1>2. Complete => Complete'
  BY DEF Complete
<1>3. ASSUME NEW r \in Starters \ {p} PROVE SeenTo(r)'
  BY <1>1, <1>2 DEF RecordedIsThere, SeenTo
<1> QED BY <1>1, <1>3 DEF RecordedIsThere

(* What a process becomes: its own record changes, of the right type.      *)
LEMMA BecomeTypes ==
  ASSUME MigrationTypeOK, NEW p \in Starters, NEW q \in Starter, BecomeStarter(p, q),
         q.pc \in {"adopt", "apply"} => q.version \in Versions,
         q.pc = "events" => q.version \in Versions \cup {0},
         versions' \subseteq Versions,
         ignored' \in BOOLEAN, mistaken' \in BOOLEAN, misread' \in BOOLEAN
  PROVE  /\ MigrationTypeOK' /\ starter'[p] = q
         /\ \A r \in Starters \ {p} : starter'[r] = starter[r]
<1>1. /\ starter' \in [Starters -> Starter] /\ starter'[p] = q
      /\ \A r \in Starters \ {p} : starter'[r] = starter[r]
  BY DEF MigrationTypeOK, BecomeStarter
<1>2. ASSUME NEW r \in Starters
      PROVE  /\ starter'[r].pc \in {"adopt", "apply"} => starter'[r].version \in Versions
             /\ starter'[r].pc = "events" => starter'[r].version \in Versions \cup {0}
  BY <1>1 DEF MigrationTypeOK
<1> QED BY <1>1, <1>2 DEF MigrationTypeOK

(* A process that goes on to version v has seen to those before it.        *)
LEMMA ApplyFromKept ==
  ASSUME MigrationTypeOK, NEW p \in Starters, NEW v \in 1..5, ApplyFrom(p, v),
         schema' = schema, versions' \subseteq Versions,
         ignored' \in BOOLEAN, mistaken' \in BOOLEAN, misread' \in BOOLEAN
  PROVE  /\ MigrationTypeOK' /\ starter'[p].pc \in {"apply", "ready"}
         /\ \A r \in Starters \ {p} : starter'[r] = starter[r]
         /\ (\A u \in 1..(v - 1) : Had(u)) => SeenTo(p)'
<1> DEFINE q == [pc |-> IF v \in Versions THEN "apply" ELSE "ready",
                 version |-> v, statement |-> 1]
<1>1. /\ q \in Starter /\ q.version = v /\ q.statement = 1
      /\ q.pc = IF v \in 1..4 THEN "apply" ELSE "ready"
      /\ Versions = 1..4 /\ BecomeStarter(p, q)
  BY Scripts DEF Starter, ApplyFrom
<1> HIDE DEF q
<1>2. q.pc \in {"apply", "ready"} /\ (q.pc = "apply" => q.version \in Versions)
  BY <1>1
<1>3. /\ MigrationTypeOK' /\ starter'[p] = q
      /\ \A r \in Starters \ {p} : starter'[r] = starter[r]
  BY <1>1, <1>2, BecomeTypes
<1>4. ASSUME \A u \in 1..(v - 1) : Had(u) PROVE SeenTo(p)'
  <2>0. \A u : Had(u) => Had(u)'
    BY DEF Had
  <2>1. CASE v \in 1..4
    BY <1>1, <1>3, <1>4, <2>0, <2>1 DEF SeenTo
  <2>2. CASE v = 5
    <3>1. Complete'
      <4>1. Complete
        BY <1>1, <1>4, <2>2, CompleteHad
      <4> QED BY <4>1 DEF Complete
    <3> QED BY <1>1, <1>3, <2>2, <3>1 DEF SeenTo
  <2> QED BY <2>1, <2>2
<1> QED BY <1>2, <1>3, <1>4

LEMMA DownKept ==
  ASSUME MigrationInv, NEW p \in Starters, BecomeStarter(p, Down),
         UNCHANGED <<schema, versions, tracked, misread, ignored, mistaken>>
  PROVE  MigrationInv'
<1>0. Down \in Starter /\ Down.pc = "down" /\ MigrationTypeOK
  BY DEF Down, Starter, MigrationInv
<1>1. /\ MigrationTypeOK' /\ starter'[p] = Down
      /\ \A r \in Starters \ {p} : starter'[r] = starter[r]
  BY <1>0, BecomeTypes DEF MigrationTypeOK
<1>2. SeenTo(p)'
  BY <1>0, <1>1 DEF SeenTo
<1>3. RecordedIsThere => RecordedIsThere'
  BY <1>1, <1>2, OthersSeenTo
<1>4. TrackedIsRead'
  BY <1>0, <1>1 DEF MigrationInv, TrackedIsRead
<1> QED BY <1>1, <1>3, <1>4 DEF MigrationInv

(* The version that is read is the last one recorded.                      *)
LEMMA Newest ==
  ASSUME versions \subseteq Versions
  PROVE  LET top == CHOOSE v \in versions \cup {0} : \A u \in versions : u <= v
         IN  /\ top \in versions \cup {0}
             /\ versions # {} => top \in versions
<1>1. Versions = 1..4
  BY Scripts
<1>2. \E v \in versions \cup {0} : \A u \in versions : u <= v
  <2>1. CASE 4 \in versions
    BY <1>1, <2>1
  <2>2. CASE 4 \notin versions /\ 3 \in versions
    BY <1>1, <2>2
  <2>3. CASE 4 \notin versions /\ 3 \notin versions /\ 2 \in versions
    BY <1>1, <2>3
  <2>4. CASE versions \subseteq {1}
    BY <1>1, <2>4
  <2> QED BY <1>1, <2>1, <2>2, <2>3, <2>4
<1> DEFINE top == CHOOSE v \in versions \cup {0} : \A u \in versions : u <= v
<1>3. top \in versions \cup {0} /\ \A u \in versions : u <= top
  BY <1>2
<1> HIDE DEF top
<1>4. ASSUME NEW u \in versions PROVE top \in versions
  <2>1. u \in 1..4 /\ u <= top
    BY <1>1, <1>3
  <2>2. top # 0
    BY <2>1
  <2> QED BY <1>3, <2>2
<1> QED BY <1>3, <1>4 DEF top

LEMMA ReadKept ==
  ASSUME MigrationInv, NEW p \in Starters, ReadVersion(p)
  PROVE  MigrationInv'
<1> DEFINE top == CHOOSE v \in versions \cup {0} : \A u \in versions : u <= v
           q(v) == [pc |-> "events", version |-> v, statement |-> 1]
<1>0. /\ MigrationTypeOK /\ TrackedIsRead
      /\ UNCHANGED <<schema, versions, tracked, ignored, mistaken>>
      /\ Versions = 1..4 /\ versions \subseteq Versions
  BY Scripts DEF MigrationInv, MigrationTypeOK, ReadVersion
<1>1. top \in versions \cup {0} /\ (versions # {} => top \in versions)
  BY <1>0, Newest
<1> HIDE DEF top
<1>2. PICK v \in versions \cup {0} :
        /\ BecomeStarter(p, q(v))
        /\ misread' \in {misread, TRUE}
        /\ misread' = misread => v = top \/ misread
  <2>1. CASE BecomeStarter(p, q(top)) /\ UNCHANGED misread
    BY <1>1, <2>1
  <2>2. CASE BecomeStarter(p, q(0)) /\ misread' = TRUE
    BY <2>2
  <2> QED BY <2>1, <2>2 DEF ReadVersion, top
<1>3. /\ q(v) \in Starter /\ q(v).pc = "events" /\ q(v).version = v
      /\ v \in Versions \cup {0} /\ misread' \in BOOLEAN
  <2>1. v \in 0..4 /\ Len(Migrations) = 4
    BY <1>0, Scripts
  <2>2. q(v) \in Starter
    BY <2>1 DEF Starter
  <2>3. misread' \in BOOLEAN
    BY <1>0, <1>2 DEF MigrationTypeOK
  <2> QED BY <1>0, <1>2, <2>2, <2>3
<1>4. /\ MigrationTypeOK' /\ starter'[p] = q(v)
      /\ \A r \in Starters \ {p} : starter'[r] = starter[r]
  BY <1>0, <1>2, <1>3, BecomeTypes DEF MigrationTypeOK
<1> HIDE DEF q
<1>5. RecordedIsThere => RecordedIsThere'
  <2> SUFFICES ASSUME RecordedIsThere PROVE RecordedIsThere'
    OBVIOUS
  <2>1. \A u \in 1..v : Had(u)'
    BY <1>0, <1>2 DEF RecordedIsThere, Had
  <2>2. SeenTo(p)'
    BY <1>3, <1>4, <2>1 DEF SeenTo
  <2> QED BY <1>0, <1>4, <2>2, OthersSeenTo
<1>6. TrackedIsRead'
  <2>1. ASSUME tracked, ~misread' PROVE ~misread /\ v # 0
    <3>1. misread \in BOOLEAN
      BY <1>0 DEF MigrationTypeOK
    <3>2. ~misread /\ misread' = misread
      <4>1. misread' = misread \/ misread'
        BY <1>2
      <4>2. misread' = misread
        BY <2>1, <4>1
      <4>3. ~misread
        BY <2>1, <4>2
      <4> QED BY <4>2, <4>3
    <3>3. v = top
      BY <1>2, <3>2
    <3>4. top \in 1..4
      BY <1>0, <1>1, <2>1 DEF TrackedIsRead
    <3> QED BY <3>2, <3>3, <3>4
  <2> QED BY <1>0, <1>3, <1>4, <2>1 DEF TrackedIsRead
<1> QED BY <1>0, <1>4, <1>5, <1>6 DEF MigrationInv

LEMMA DetectKept ==
  ASSUME MigrationInv, NEW p \in Starters, DetectEvents(p)
  PROVE  MigrationInv'
<1> DEFINE current == starter[p].version
<1>0. /\ MigrationTypeOK /\ TrackedIsRead /\ StarterAt(p, "events")
      /\ UNCHANGED <<schema, versions, tracked, misread, ignored>>
      /\ Versions = 1..4 /\ current \in 0..4
  BY Scripts DEF MigrationInv, MigrationTypeOK, DetectEvents, StarterAt
<1>1. CASE /\ current = 0
           /\ BecomeStarter(p, [pc |-> "adopt", version |-> 1, statement |-> 1])
           /\ mistaken' = (mistaken \/ ~Complete)
  <2> DEFINE q == [pc |-> "adopt", version |-> 1, statement |-> 1]
  <2>1. q \in Starter /\ q.pc = "adopt" /\ q.version = 1 /\ mistaken' \in BOOLEAN
    BY <1>0, <1>1, Scripts DEF Starter, MigrationTypeOK
  <2> HIDE DEF q
  <2>2. /\ MigrationTypeOK' /\ starter'[p] = q
        /\ \A r \in Starters \ {p} : starter'[r] = starter[r]
    BY <1>0, <1>1, <2>1, BecomeTypes DEF MigrationTypeOK, q
  <2>3. ASSUME ~mistaken', RecordedIsThere PROVE RecordedIsThere'
    <3>1. Complete'
      BY <1>0, <1>1, <2>3 DEF Complete
    <3>2. SeenTo(p)'
      BY <2>1, <2>2, <3>1 DEF SeenTo
    <3> QED BY <1>0, <2>2, <2>3, <3>2, OthersSeenTo
  <2>4. ~(tracked /\ ~misread)
    BY <1>0, <1>1 DEF TrackedIsRead, StarterAt
  <2>5. TrackedIsRead'
    BY <1>0, <2>4 DEF TrackedIsRead
  <2>6. ignored' \/ mistaken' \/ RecordedIsThere'
    BY <1>0, <1>1, <2>3 DEF MigrationInv
  <2> QED BY <2>2, <2>5, <2>6 DEF MigrationInv
<1>2. CASE ApplyFrom(p, current + 1) /\ UNCHANGED mistaken
  <2>0. current + 1 \in 1..5 /\ (current + 1) - 1 = current
    BY <1>0
  <2> HIDE DEF current
  <2>1. /\ MigrationTypeOK' /\ starter'[p].pc \in {"apply", "ready"}
        /\ \A r \in Starters \ {p} : starter'[r] = starter[r]
        /\ (\A u \in 1..((current + 1) - 1) : Had(u)) => SeenTo(p)'
    BY <1>0, <1>2, <2>0, ApplyFromKept DEF MigrationTypeOK
  <2>2. RecordedIsThere => RecordedIsThere'
    <3> SUFFICES ASSUME RecordedIsThere PROVE RecordedIsThere'
      OBVIOUS
    <3>1. \A u \in 1..current : Had(u)
      BY <1>0 DEF RecordedIsThere, SeenTo, StarterAt, current
    <3>2. SeenTo(p)'
      BY <2>0, <2>1, <3>1
    <3> QED BY <1>0, <2>1, <3>2, OthersSeenTo
  <2>3. TrackedIsRead'
    BY <1>0, <1>2, <2>1 DEF TrackedIsRead
  <2> QED BY <1>0, <1>2, <2>1, <2>2, <2>3 DEF MigrationInv
<1> QED BY <1>1, <1>2 DEF DetectEvents

LEMMA AdoptKept ==
  ASSUME MigrationInv, NEW p \in Starters, Adopt(p)
  PROVE  MigrationInv'
<1> DEFINE v == starter[p].version
           q == [starter[p] EXCEPT !.version = @ + 1]
<1>0. /\ MigrationTypeOK /\ TrackedIsRead /\ StarterAt(p, "adopt")
      /\ UNCHANGED <<schema, tracked, misread, ignored, mistaken>>
      /\ Versions = 1..4 /\ v \in 1..4 /\ versions' \in {versions, versions \cup {v}}
      /\ versions' \subseteq Versions
  BY Scripts DEF MigrationInv, MigrationTypeOK, Adopt, StarterAt
<1>1. /\ MigrationTypeOK' /\ starter'[p].pc \in {"adopt", "apply", "ready"}
      /\ \A r \in Starters \ {p} : starter'[r] = starter[r]
      /\ Complete => SeenTo(p)'
  <2>1. CASE v = 4 /\ ApplyFrom(p, 5)
    <3>1. Complete => \A u \in 1..(5 - 1) : Had(u)
      BY <1>0, CompleteHad
    <3> QED BY <1>0, <2>1, <3>1, ApplyFromKept DEF MigrationTypeOK
  <2>2. CASE v # 4 /\ BecomeStarter(p, q)
    <3>1. q \in Starter /\ q.pc = "adopt" /\ q.version \in Versions
      BY <1>0, <2>2, Scripts DEF MigrationTypeOK, Starter, StarterAt
    <3> HIDE DEF q
    <3>2. /\ MigrationTypeOK' /\ starter'[p] = q
          /\ \A r \in Starters \ {p} : starter'[r] = starter[r]
      BY <1>0, <2>2, <3>1, BecomeTypes DEF MigrationTypeOK
    <3>3. Complete => Complete'
      BY <1>0 DEF Complete
    <3> QED BY <3>1, <3>2, <3>3 DEF SeenTo
  <2> QED BY <2>1, <2>2 DEF Adopt
<1>2. RecordedIsThere => RecordedIsThere'
  <2> SUFFICES ASSUME RecordedIsThere PROVE RecordedIsThere'
    OBVIOUS
  <2>1. Complete
    BY <1>0 DEF RecordedIsThere, SeenTo, StarterAt
  <2>2. \A w \in versions' \ versions : \A u \in 1..w : Had(u)'
    <3>1. \A u \in 1..4 : Had(u)'
      BY <1>0, <2>1, CompleteHad DEF Had
    <3> QED BY <1>0, <3>1
  <2> QED BY <1>0, <1>1, <2>1, <2>2, OthersSeenTo
<1>3. TrackedIsRead'
  <2>1. \A r \in Starters : starter'[r].pc = "events" => starter'[r] = starter[r]
    BY <1>1
  <2> QED BY <1>0, <2>1 DEF TrackedIsRead
<1> QED BY <1>0, <1>1, <1>2, <1>3 DEF MigrationInv

(* One more statement has been seen to, or its error ignored.              *)
LEMMA StatementKept ==
  ASSUME MigrationInv, NEW p \in Starters, StarterAt(p, "apply"), ~IsDone(p),
         NextStatement(p), schema \subseteq schema',
         UNCHANGED <<versions, tracked, misread, mistaken>>, ignored' \in BOOLEAN,
         ignored => ignored', ignored' \/ Statement(p).name \in schema'
  PROVE  MigrationInv'
<1> DEFINE v == starter[p].version
           k == starter[p].statement
           q == [starter[p] EXCEPT !.statement = @ + 1]
<1>0. /\ MigrationTypeOK /\ TrackedIsRead /\ Versions = 1..4 /\ v \in 1..4 /\ k \in 1..5
      /\ Statement(p) = Migrations[v][k]
  <2>1. MigrationTypeOK /\ TrackedIsRead /\ Versions = 1..4 /\ v \in 1..4 /\ k \in Nat \ {0}
    <3>1. MigrationTypeOK /\ TrackedIsRead /\ Versions = 1..4
      BY Scripts DEF MigrationInv
    <3>2. starter[p] \in Starter /\ starter[p].pc = "apply"
      BY <3>1 DEF MigrationTypeOK, StarterAt
    <3>3. k \in Nat \ {0}
      BY <3>2 DEF Starter
    <3>4. v \in Versions
      BY <3>1, <3>2 DEF MigrationTypeOK
    <3> HIDE DEF v, k
    <3> QED BY <3>1, <3>3, <3>4
  <2>2. Len(Migrations[v]) \in 3..5 /\ k <= Len(Migrations[v])
    BY <2>1, Scripts DEF IsDone
  <2>3. Statement(p) = Migrations[v][k]
    BY DEF Statement
  <2> HIDE DEF v, k
  <2> QED BY <2>1, <2>2, <2>3
<1>1. /\ q \in Starter /\ q.pc = "apply" /\ q.version = v /\ q.statement = k + 1
      /\ BecomeStarter(p, q)
  BY <1>0 DEF MigrationTypeOK, Starter, StarterAt, NextStatement
<1> HIDE DEF q, v, k
<1>2. /\ MigrationTypeOK' /\ starter'[p] = q
      /\ \A r \in Starters \ {p} : starter'[r] = starter[r]
  BY <1>0, <1>1, BecomeTypes DEF MigrationTypeOK
<1>3. ASSUME RecordedIsThere, ~ignored' PROVE RecordedIsThere'
  <2>1. SeenTo(p)
    BY <1>3 DEF RecordedIsThere
  <2>2. \A u \in 1..(v - 1) : Had(u)'
    BY <2>1 DEF SeenTo, StarterAt, Had, v
  <2>3. \A j \in 1..(k - 1) : Migrations[v][j].name \in schema'
    BY <2>1 DEF SeenTo, StarterAt, v, k
  <2>4. Migrations[v][k].name \in schema'
    BY <1>0, <1>3
  <2>5. \A j \in 1..((k + 1) - 1) : j \in 1..(k - 1) \/ j = k
    BY <1>0
  <2>6. \A j \in 1..((k + 1) - 1) : Migrations[v][j].name \in schema'
    BY <2>3, <2>4, <2>5
  <2>7. SeenTo(p)'
    BY <1>1, <1>2, <2>2, <2>6 DEF SeenTo
  <2> QED BY <1>2, <1>3, <2>7, OthersSeenTo
<1>4. TrackedIsRead'
  BY <1>0, <1>1, <1>2 DEF TrackedIsRead
<1> QED BY <1>0, <1>2, <1>3, <1>4 DEF MigrationInv

LEMMA RecordKept ==
  ASSUME MigrationInv, NEW p \in Starters, RecordVersion(p)
  PROVE  MigrationInv'
<1> DEFINE v == starter[p].version
<1>0. /\ MigrationTypeOK /\ TrackedIsRead /\ StarterAt(p, "apply") /\ IsDone(p)
      /\ UNCHANGED <<schema, tracked, misread, ignored, mistaken>>
      /\ Versions = 1..4 /\ v \in 1..4
  BY Scripts DEF MigrationInv, MigrationTypeOK, RecordVersion, StarterAt
<1>1. CASE BecomeStarter(p, Down) /\ UNCHANGED versions
  BY <1>0, <1>1, DownKept
<1>2. CASE versions' = versions \cup {v} /\ ApplyFrom(p, v + 1)
  <2>0. v + 1 \in 1..5 /\ (v + 1) - 1 = v /\ versions' \subseteq Versions
    <3>1. versions' \subseteq Versions
      BY <1>0, <1>2 DEF MigrationTypeOK
    <3> HIDE DEF v
    <3> QED BY <1>0, <3>1
  <2>1. /\ MigrationTypeOK' /\ starter'[p].pc \in {"apply", "ready"}
        /\ \A r \in Starters \ {p} : starter'[r] = starter[r]
        /\ (\A u \in 1..((v + 1) - 1) : Had(u)) => SeenTo(p)'
    BY <1>0, <1>2, <2>0, ApplyFromKept DEF MigrationTypeOK
  <2>2. RecordedIsThere => RecordedIsThere'
    <3> SUFFICES ASSUME RecordedIsThere PROVE RecordedIsThere'
      OBVIOUS
    <3>1. /\ \A u \in 1..(v - 1) : Had(u)
          /\ \A k \in 1..(starter[p].statement - 1) : Migrations[v][k].name \in schema
      BY <1>0 DEF RecordedIsThere, SeenTo, StarterAt
    <3>2. Had(v)
      <4>1. starter[p].statement \in Nat /\ starter[p].statement > Len(Migrations[v])
        BY <1>0 DEF MigrationTypeOK, Starter, IsDone
      <4>2. /\ Len(Migrations[v]) \in Nat
            /\ ObjectsOf(v) = {Migrations[v][k].name : k \in 1..Len(Migrations[v])}
        <5> HIDE DEF v
        <5>1. Len(Migrations[v]) \in 3..5
          BY <1>0, Scripts
        <5>2. ObjectsOf(v) = {Migrations[v][k].name : k \in 1..Len(Migrations[v])}
          BY <1>0, Scripts
        <5> QED BY <5>1, <5>2
      <4> HIDE DEF v
      <4>3. \A k \in 1..Len(Migrations[v]) : k \in 1..(starter[p].statement - 1)
        BY <4>1, <4>2
      <4>4. \A k \in 1..Len(Migrations[v]) : Migrations[v][k].name \in schema
        BY <3>1, <4>3
      <4> QED BY <4>2, <4>4 DEF Had
    <3> HIDE DEF v
    <3>3. \A u \in 1..v : u \in 1..(v - 1) \/ u = v
      BY <1>0
    <3>4. \A u \in 1..v : Had(u)
      BY <3>1, <3>2, <3>3
    <3>5. SeenTo(p)' /\ \A u \in 1..v : Had(u)'
      BY <1>0, <2>0, <2>1, <3>4 DEF Had
    <3> QED BY <1>0, <1>2, <2>1, <3>5, OthersSeenTo
  <2>3. TrackedIsRead'
    <3>1. versions' # {}
      BY <1>2
    <3> QED BY <1>0, <2>1, <3>1 DEF TrackedIsRead
  <2> QED BY <1>0, <2>1, <2>2, <2>3 DEF MigrationInv
<1> QED BY <1>1, <1>2 DEF RecordVersion

LEMMA MigrationNextKept == MigrationInv /\ [MigrationNext]_migrationVars => MigrationInv'
<1> SUFFICES ASSUME MigrationInv, [MigrationNext]_migrationVars PROVE MigrationInv'
  OBVIOUS
<1>1. ASSUME NEW p \in Starters, ApplyStatement(p) PROVE MigrationInv'
  <2>1. ignored \in BOOLEAN
    BY DEF MigrationInv, MigrationTypeOK
  <2> QED BY <1>1, <2>1, StatementKept DEF ApplyStatement
<1>2. ASSUME NEW p \in Starters, IgnoreStatement(p) PROVE MigrationInv'
  <2>1. ignored' = (ignored \/ Statement(p).name \notin schema) /\ schema' = schema
    BY <1>2 DEF IgnoreStatement
  <2>2. /\ ignored' \in BOOLEAN /\ ignored => ignored'
        /\ ignored' \/ Statement(p).name \in schema'
    BY <2>1
  <2> QED BY <1>2, <2>1, <2>2, StatementKept DEF IgnoreStatement
<1>3. ASSUME NEW p \in Starters, StatementFails(p) PROVE MigrationInv'
  BY <1>3, DownKept DEF StatementFails
<1>4. ASSUME NEW p \in Starters, CrashStarter(p) PROVE MigrationInv'
  BY <1>4, DownKept DEF CrashStarter
<1>5. CASE UNCHANGED migrationVars
  BY <1>5 DEF migrationVars, MigrationInv, MigrationTypeOK, RecordedIsThere, SeenTo,
    TrackedIsRead, Had, Complete
<1> QED BY <1>1, <1>2, <1>3, <1>4, <1>5, ReadKept, DetectKept, AdoptKept, RecordKept
  DEF MigrationNext

(* However many processes migrate at once, and wherever they crash or a    *)
(* statement fails, none begins its work on an incomplete schema unless    *)
(* an error was ignored or an unfinished database taken for an old one,    *)
(* and one whose versions can be read is never taken for old (db.rs,       *)
(* migrate).                                                               *)
THEOREM SchemasAreExplained == MigrationSpec => []SchemaIsExplained
<1>1. MigrationInv => SchemaIsExplained
  BY DEF MigrationInv, TrackedIsRead, RecordedIsThere, SeenTo, SchemaIsExplained, StarterAt
<1> QED BY <1>1, MigrationInit_Inv, MigrationNextKept, PTL DEF MigrationSpec

-----------------------------------------------------------------------------
(* The readers that page through a table.                                  *)

LEMMA Bounds ==
  ASSUME NEW S \in SUBSET Ids
  PROVE  /\ S \subseteq Nat /\ IsFiniteSet(S) /\ Cardinality(S) \in Nat
         /\ \A i \in S : 1 <= i /\ i <= MaxId
<1>1. MaxId \in Nat /\ S \subseteq 1..MaxId
  BY ListingAssumption DEF Ids
<1>2. IsFiniteSet(1..MaxId)
  BY <1>1, FS_Interval
<1>3. IsFiniteSet(S) /\ Cardinality(S) \in Nat
  BY <1>1, <1>2, FS_Subset, FS_CardinalityType
<1> QED BY <1>1, <1>3

LEMMA LeastIsIn ==
  ASSUME NEW S \in SUBSET Ids, S # {}
  PROVE  Least(S) \in S /\ \A k \in S : Least(S) <= k
<1>1. \E i \in S : \A k \in S : i <= k
  BY Bounds, Smallest
<1> QED BY <1>1 DEF Least

LEMMA GreatestIsIn ==
  ASSUME NEW S \in SUBSET Ids, S # {}
  PROVE  Greatest(S) \in S /\ \A k \in S : k <= Greatest(S)
<1>0. MaxId \in Nat
  BY ListingAssumption
<1> DEFINE T == {MaxId - i : i \in S}
<1>1. \A i \in S : i \in Nat /\ MaxId - i \in Nat
  BY <1>0, Bounds
<1>2. T \in SUBSET Nat /\ T # {}
  BY <1>1
<1>3. PICK n \in T : \A m \in T : n <= m
  BY <1>2, Smallest
<1>4. PICK i \in S : n = MaxId - i
  BY <1>3
<1>5. ASSUME NEW k \in S PROVE k <= i
  <2>1. MaxId - i <= MaxId - k
    BY <1>3, <1>4
  <2> QED BY <1>0, <1>1, <2>1
<1> QED BY <1>5 DEF Greatest

(* The lowest n rows are those below a point, all of them if they are      *)
(* fewer than n, and there is one if there is any.                         *)
LEMMA LowestIs ==
  ASSUME NEW S \in SUBSET Ids, NEW n \in Nat
  PROVE  /\ Lowest(S, n) \subseteq S
         /\ \A i \in Lowest(S, n) : \A k \in S : k <= i => k \in Lowest(S, n)
         /\ Cardinality(Lowest(S, n)) < n => Lowest(S, n) = S
         /\ Cardinality(S) <= n => Lowest(S, n) = S
         /\ n # 0 /\ S # {} => Lowest(S, n) # {}
<1> DEFINE Below(i) == {k \in S : k < i}
           L == Lowest(S, n)
<1>0. /\ L \subseteq S /\ S \subseteq Nat /\ IsFiniteSet(S) /\ Cardinality(S) \in Nat
      /\ \A i \in S : i \in L <=> Cardinality(Below(i)) < n
  BY Bounds DEF Lowest
<1>1. ASSUME NEW i \in S
      PROVE  /\ Below(i) \in SUBSET Ids /\ IsFiniteSet(Below(i))
             /\ Cardinality(Below(i)) \in Nat
  <2>1. Below(i) \in SUBSET Ids
    OBVIOUS
  <2> HIDE DEF Below
  <2> QED BY <2>1, Bounds
<1>2. ASSUME NEW i \in L, NEW k \in S, k <= i PROVE k \in L
  <2>1. Below(k) \subseteq Below(i)
    <3> SUFFICES ASSUME NEW j \in S, j < k PROVE j < i
      OBVIOUS
    <3>1. i \in Nat /\ j \in Nat /\ k \in Nat
      BY <1>0, <1>2
    <3> QED BY <1>2, <3>1
  <2>2. Cardinality(Below(k)) <= Cardinality(Below(i))
    <3> HIDE DEF Below
    <3> QED BY <1>0, <1>1, <2>1, FS_Subset
  <2> HIDE DEF L, Below
  <2> QED BY <1>0, <1>1, <2>2
<1>3. ASSUME Cardinality(L) < n PROVE L = S
  <2> SUFFICES ASSUME S \ L # {} PROVE FALSE
    BY <1>0
  <2>1. PICK i \in S \ L : \A k \in S \ L : i <= k
    BY <1>0, Smallest
  <2>2. Below(i) \subseteq L
    <3> SUFFICES ASSUME NEW j \in S, j < i PROVE j \in L
      OBVIOUS
    <3> HIDE DEF L
    <3>1. i \in Nat /\ j \in Nat
      BY <1>0, <2>1
    <3> QED BY <2>1, <3>1
  <2> HIDE DEF L, Below
  <2>3. IsFiniteSet(L) /\ Cardinality(L) \in Nat
    BY <1>0, FS_Subset, FS_CardinalityType
  <2>4. Cardinality(Below(i)) <= Cardinality(L)
    BY <2>2, <2>3, FS_Subset
  <2> QED BY <1>0, <1>1, <1>3, <2>1, <2>3, <2>4
<1>4. ASSUME Cardinality(S) <= n PROVE L = S
  <2> SUFFICES ASSUME NEW i \in S PROVE Cardinality(Below(i)) < n
    BY <1>0
  <2>1. Below(i) \subseteq S /\ Below(i) # S
    BY <1>0
  <2> HIDE DEF Below
  <2>2. Cardinality(Below(i)) <= Cardinality(S) /\ Cardinality(Below(i)) # Cardinality(S)
    BY <1>0, <2>1, FS_Subset
  <2> QED BY <1>0, <1>1, <1>4, <2>2
<1>5. ASSUME n # 0, S # {} PROVE L # {}
  <2>1. PICK i \in S : \A k \in S : i <= k
    BY <1>0, <1>5, Smallest
  <2>2. Below(i) = {}
    <3> SUFFICES ASSUME NEW j \in S, j < i PROVE FALSE
      OBVIOUS
    <3>1. i \in Nat /\ j \in Nat /\ i <= j
      BY <1>0, <2>1
    <3> QED BY <3>1
  <2>3. Cardinality(Below(i)) = 0
    <3> HIDE DEF Below
    <3> QED BY <2>2, FS_EmptySet
  <2> HIDE DEF L, Below
  <2> QED BY <1>0, <1>5, <2>3
<1> QED BY <1>0, <1>2, <1>3, <1>4, <1>5

ListingTypeOK ==
  /\ table \in [Ids -> RowState]
  /\ pager \in [walking : BOOLEAN, cursor : Nat, got : SUBSET Ids, again : SUBSET Ids]
  /\ tail \in [cursor : Nat, printed : SUBSET Ids, oldest : Nat]

(* The rows of a walk that were there all the time are behind its cursor   *)
(* or still to come, and those it has been given are behind it.            *)
WalkKept ==
  /\ throughout \subseteq Matching
  /\ pager.again = {}
  /\ pager.walking =>
       /\ \A i \in pager.got : i <= pager.cursor
       /\ \A i \in throughout : i <= pager.cursor => i \in pager.got
  /\ ~pager.walking => throughout \subseteq pager.got

TailKept ==
  /\ tail.cursor # 0 => tail.cursor \in tail.printed
  /\ TailSkipsNothing

ListingInv == ListingTypeOK /\ WalkKept /\ TailKept

LEMMA ListingInit_Inv == ListingInit => ListingInv
  BY Bounds
  DEF ListingInit, ListingInv, ListingTypeOK, WalkKept, TailKept, TailSkipsNothing,
    Matching, Ids, RowState

LEMMA BecomeKept ==
  ASSUME ListingInv, NEW i \in Ids, NEW state \in RowState, Become(i, state)
  PROVE  ListingInv'
<1>1. /\ table' = [table EXCEPT ![i] = state] /\ UNCHANGED <<pager, tail>>
      /\ table \in [Ids -> RowState] /\ i \in Nat
  BY Bounds DEF ListingInv, ListingTypeOK, Become, Ids
<1>2. Matching' = IF state = "matches" THEN Matching \cup {i} ELSE Matching \ {i}
  BY <1>1 DEF Matching
<1>3. ListingTypeOK'
  BY <1>1 DEF ListingInv, ListingTypeOK
<1>4. throughout' \subseteq throughout /\ throughout' \subseteq Matching'
  <2>1. CASE state = "matches" /\ throughout' = throughout
    BY <1>2, <2>1 DEF ListingInv, WalkKept
  <2>2. CASE state # "matches" /\ throughout' = throughout \ {i}
    BY <1>2, <2>2 DEF ListingInv, WalkKept
  <2> QED BY <2>1, <2>2 DEF Become
<1>5. WalkKept'
  BY <1>1, <1>4 DEF ListingInv, WalkKept
<1>6. TailKept'
  <2>1. tail.cursor # 0 => tail.cursor \in tail.printed
    BY DEF ListingInv, TailKept
  <2>2. ASSUME NEW k \in Matching', k <= tail.cursor
        PROVE  k \in tail.printed \cup late' \/ k < tail.oldest
    <3>1. late \subseteq late'
      BY DEF Become
    <3>2. CASE k \in Matching
      BY <2>2, <3>1, <3>2 DEF ListingInv, TailKept, TailSkipsNothing
    <3>3. CASE k = i /\ state = "matches"
      <4>1. tail.cursor \in Nat /\ k \in Nat /\ 1 <= k
        BY <1>1, <3>3, Bounds DEF ListingInv, ListingTypeOK, Ids
      <4>2. CASE k < tail.cursor
        BY <3>3, <4>2 DEF Become
      <4>3. CASE k = tail.cursor
        BY <2>1, <4>1, <4>3
      <4> QED BY <2>2, <4>1, <4>2, <4>3
    <3> QED BY <1>2, <2>2, <3>2, <3>3
  <2> QED BY <1>1, <2>1, <2>2 DEF TailKept, TailSkipsNothing
<1> QED BY <1>3, <1>5, <1>6 DEF ListingInv

(* A page holds all rows from the cursor to its last, and the rest of the  *)
(* rows if it is the last one.                                             *)
LEMMA FetchKept ==
  ASSUME ListingInv, FetchPage
  PROVE  ListingInv'
<1> DEFINE rest == After(pager.cursor)
           fetched == Lowest(rest, PageLimit + 1)
           page == Lowest(fetched, PageLimit)
           more == Cardinality(fetched) > PageLimit
           next == IF more THEN Greatest(page) ELSE pager.cursor
<1>0. /\ ListingTypeOK /\ WalkKept /\ TailKept
      /\ pager.walking /\ UNCHANGED <<table, throughout, tail, late>>
      /\ pager' = [walking |-> more, got |-> pager.got \cup page,
                   again |-> pager.again \cup (pager.got \cap page), cursor |-> next]
      /\ pager.cursor \in Nat /\ pager.got \subseteq Ids
      /\ PageLimit \in Nat \ {0} /\ PageLimit + 1 \in Nat
  BY ListingAssumption DEF ListingInv, ListingTypeOK, FetchPage, NextCursor
<1>1. /\ rest \in SUBSET Ids /\ Matching \subseteq Ids /\ Ids \subseteq Nat
      /\ \A i \in Matching : i \in Nat /\ (i \in rest <=> i > pager.cursor)
      /\ \A i \in rest : i \in Matching
  <2>1. Matching \in SUBSET Ids /\ Ids \in SUBSET Ids
    BY DEF Matching
  <2>2. Ids \subseteq Nat
    BY <2>1, Bounds
  <2>3. rest = {i \in Matching : i > pager.cursor}
    BY DEF After
  <2> HIDE DEF rest
  <2> QED BY <2>1, <2>2, <2>3
<1> HIDE DEF rest
<1>2. /\ fetched \in SUBSET Ids /\ fetched \subseteq rest
      /\ \A i \in fetched : \A k \in rest : k <= i => k \in fetched
      /\ ~more => fetched = rest
  <2>1. fetched \subseteq rest /\ fetched \in SUBSET Ids
        /\ \A i \in fetched : \A k \in rest : k <= i => k \in fetched
    BY <1>0, <1>1, LowestIs
  <2>2. Cardinality(fetched) < PageLimit + 1 => fetched = rest
    BY <1>0, <1>1, LowestIs
  <2> HIDE DEF fetched
  <2>3. Cardinality(fetched) \in Nat
    BY <2>1, Bounds
  <2> QED BY <1>0, <2>1, <2>2, <2>3
<1> HIDE DEF fetched
<1>3. /\ page \in SUBSET Ids /\ page \subseteq fetched
      /\ \A i \in page : \A k \in fetched : k <= i => k \in page
      /\ ~more => page = fetched
      /\ more => page # {}
  <2>1. Cardinality(fetched) \in Nat /\ (Cardinality(fetched) = 0 <=> fetched = {})
    BY <1>2, Bounds, FS_EmptySet
  <2>2. more => fetched # {}
    BY <1>0, <2>1
  <2>3. ~more => Cardinality(fetched) <= PageLimit
    BY <1>0, <2>1
  <2> QED BY <1>0, <1>2, <2>2, <2>3, LowestIs
<1> HIDE DEF page, more
<1>4. next \in Nat /\ (more => next \in page /\ \A k \in page : k <= next)
  <2>1. CASE more
    BY <1>1, <1>3, <2>1, GreatestIsIn
  <2>2. CASE ~more
    BY <1>0, <2>2
  <2> QED BY <2>1, <2>2
<1> HIDE DEF next
<1>3a. \A i \in page : i \in Nat /\ i > pager.cursor
  <2> SUFFICES ASSUME NEW i \in page PROVE i \in Nat /\ i > pager.cursor
    OBVIOUS
  <2>1. i \in fetched
    BY <1>3
  <2>2. i \in rest
    BY <1>2, <2>1
  <2>3. i \in Matching
    BY <1>1, <2>2
  <2> QED BY <1>1, <2>2, <2>3
<1>5. ListingTypeOK'
  <2>1. more \in BOOLEAN
    BY DEF more
  <2>2. pager.again \subseteq Ids
    BY <1>0 DEF ListingTypeOK
  <2> QED BY <1>0, <1>3, <1>4, <2>1, <2>2 DEF ListingTypeOK
<1>6. pager.got \cap page = {}
  <2> SUFFICES ASSUME NEW i \in pager.got, i \in page PROVE FALSE
    OBVIOUS
  <2>1. i <= pager.cursor
    BY <1>0 DEF WalkKept
  <2>2. i > pager.cursor /\ i \in Nat
    BY <1>3a
  <2> QED BY <1>0, <2>1, <2>2
<1>7. ASSUME NEW i \in throughout, more => i <= next
      PROVE  i \in pager.got \cup page
  <2>0. i \in Matching /\ i \in Nat
    BY <1>0, <1>1 DEF WalkKept
  <2>1. CASE i <= pager.cursor
    BY <1>0, <2>1 DEF WalkKept
  <2>2. CASE i > pager.cursor /\ ~more
    <3>1. i \in rest
      BY <1>1, <2>0, <2>2
    <3> QED BY <1>2, <1>3, <2>2, <3>1
  <2>3. CASE i > pager.cursor /\ more
    <3>1. i \in rest
      BY <1>1, <2>0, <2>3
    <3>2. next \in fetched /\ i <= next
      BY <1>3, <1>4, <1>7, <2>3
    <3>3. i \in fetched
      BY <1>2, <3>1, <3>2
    <3> QED BY <1>3, <1>4, <2>3, <3>2, <3>3
  <2> QED BY <1>0, <2>0, <2>1, <2>2, <2>3
<1>8. ASSUME more, NEW i \in pager.got \cup page PROVE i <= next
  <2>1. CASE i \in page
    BY <1>4, <1>8, <2>1
  <2>2. CASE i \in pager.got
    <3>1. i <= pager.cursor /\ pager.cursor < next
      BY <1>0, <1>4, <1>8, <1>3a, <2>2 DEF WalkKept
    <3>2. i \in Nat
      BY <1>0, <1>1, <2>2
    <3> QED BY <1>0, <1>4, <3>1, <3>2
  <2> QED BY <1>8, <2>1, <2>2
<1>9. WalkKept'
  <2>1. Matching' = Matching /\ throughout \subseteq Matching /\ pager.again = {}
    BY <1>0 DEF WalkKept, Matching
  <2>2. /\ pager'.walking = more /\ pager'.got = pager.got \cup page
        /\ pager'.again = {} /\ pager'.cursor = next
    BY <1>0, <1>6, <2>1
  <2> QED BY <1>0, <1>7, <1>8, <2>1, <2>2 DEF WalkKept
<1>10. TailKept'
  BY <1>0 DEF TailKept, TailSkipsNothing, Matching
<1> QED BY <1>5, <1>9, <1>10 DEF ListingInv

LEMMA PollKept ==
  ASSUME ListingInv, PollTail
  PROVE  ListingInv'
<1> DEFINE rows == Polled(tail.cursor)
<1>0. /\ ListingTypeOK /\ WalkKept /\ TailKept /\ rows # {}
      /\ UNCHANGED <<table, pager, throughout, late>>
      /\ tail.cursor \in Nat /\ tail.printed \subseteq Ids /\ tail.oldest \in Nat
      /\ TailLimit \in Nat /\ Matching \subseteq Ids /\ Matching' = Matching
      /\ After(tail.cursor) \in SUBSET Ids /\ Ids \subseteq Nat
      /\ tail'.printed = tail.printed \cup rows
  BY ListingAssumption, Bounds
  DEF ListingInv, ListingTypeOK, PollTail, Matching, After
<1>1. WalkKept'
  BY <1>0 DEF WalkKept
<1>2. CASE tail.cursor = 0
  <2>1. rows \in SUBSET Ids
    BY <1>0, <1>2 DEF Polled, Highest
  <2> HIDE DEF rows
  <2>2. Least(rows) \in rows /\ Least(rows) \in Nat /\ Least(rows) \in Ids
    BY <1>0, <2>1, LeastIsIn
  <2>3. tail' = [cursor |-> Least(rows), printed |-> tail.printed \cup rows,
                 oldest |-> Least(rows)]
    BY <1>2 DEF PollTail, rows
  <2>4. ListingTypeOK'
    BY <1>0, <2>1, <2>2, <2>3 DEF ListingTypeOK
  <2>5. \A k \in Matching : k <= Least(rows) => k \in rows \/ k < Least(rows)
    <3>1. \A k \in Matching : k \in Nat
      BY <1>0
    <3> QED BY <2>2, <3>1
  <2>6. TailKept'
    BY <1>0, <2>2, <2>3, <2>5 DEF TailKept, TailSkipsNothing
  <2> QED BY <1>1, <2>4, <2>6 DEF ListingInv
<1>3. CASE tail.cursor # 0
  <2>1. /\ rows \in SUBSET Ids /\ rows \subseteq After(tail.cursor)
        /\ \A i \in rows : \A k \in After(tail.cursor) : k <= i => k \in rows
    BY <1>0, <1>3, LowestIs DEF Polled
  <2> HIDE DEF rows
  <2>2. Greatest(rows) \in rows /\ Greatest(rows) \in Nat
    BY <1>0, <2>1, GreatestIsIn
  <2>3. tail' = [cursor |-> Greatest(rows), printed |-> tail.printed \cup rows,
                 oldest |-> tail.oldest]
    BY <1>3 DEF PollTail, rows
  <2>4. ListingTypeOK'
    BY <1>0, <2>1, <2>2, <2>3 DEF ListingTypeOK
  <2>5. ASSUME NEW k \in Matching, k <= Greatest(rows)
        PROVE  k \in tail.printed \cup rows \cup late \/ k < tail.oldest
    <3>1. CASE k <= tail.cursor
      BY <1>0, <3>1 DEF TailKept, TailSkipsNothing
    <3>2. CASE k > tail.cursor
      BY <2>1, <2>2, <2>5, <3>2 DEF After
    <3>3. k \in Nat
      BY <1>0
    <3> QED BY <1>0, <3>1, <3>2, <3>3
  <2>6. TailKept'
    BY <1>0, <2>2, <2>3, <2>5 DEF TailKept, TailSkipsNothing
  <2> QED BY <1>1, <2>4, <2>6 DEF ListingInv
<1> QED BY <1>2, <1>3

LEMMA ListingNextKept == ListingInv /\ [ListingNext]_listingVars => ListingInv'
<1> SUFFICES ASSUME ListingInv, [ListingNext]_listingVars PROVE ListingInv'
  OBVIOUS
<1>1. ASSUME NEW i \in Ids, CommitRow(i) \/ ChangeRow(i) PROVE ListingInv'
  <2>1. PICK state \in RowState : Become(i, state)
    BY <1>1 DEF CommitRow, ChangeRow, RowState
  <2> QED BY <2>1, BecomeKept
<1>2. CASE StartWalk
  <2>1. /\ pager' = [walking |-> TRUE, cursor |-> 0, got |-> {}, again |-> {}]
        /\ throughout' = Matching /\ UNCHANGED <<table, tail, late>>
        /\ \A i \in Matching : i > 0
    BY <1>2, Bounds DEF StartWalk, Matching
  <2>2. \A i \in Matching : ~(i <= 0)
    BY Bounds DEF Matching
  <2>3. WalkKept'
    BY <2>1, <2>2 DEF WalkKept, Matching
  <2>4. ListingTypeOK' /\ TailKept'
    BY <2>1 DEF ListingInv, ListingTypeOK, TailKept, TailSkipsNothing, Matching
  <2> QED BY <2>3, <2>4 DEF ListingInv
<1>3. CASE UNCHANGED listingVars
  BY <1>3
  DEF listingVars, ListingInv, ListingTypeOK, WalkKept, TailKept, TailSkipsNothing, Matching
<1> QED BY <1>1, <1>2, <1>3, FetchKept, PollKept DEF ListingNext

(* A client that follows the pages to the end is given every row that has  *)
(* matched all the time, and none twice, for any size of the pages and of  *)
(* the table (api.rs, handle_list_events and handle_list_jobs).            *)
THEOREM PagesAreWhole == ListingSpec => []PagesAreComplete
<1>1. ListingInv => PagesAreComplete
  BY DEF ListingInv, WalkKept, PagesAreComplete
<1> QED BY <1>1, ListingInit_Inv, ListingNextKept, PTL DEF ListingSpec

(* The tail's cursor passes no row that was there to be printed, for any   *)
(* number of rows per poll (db.rs, list_events_after and list_jobs_after). *)
THEOREM TailIsWhole == ListingSpec => []TailSkipsNothing
<1>1. ListingInv => TailSkipsNothing
  BY DEF ListingInv, TailKept
<1> QED BY <1>1, ListingInit_Inv, ListingNextKept, PTL DEF ListingSpec

-----------------------------------------------------------------------------
(* Messages of SNS.                                                        *)

(* A cached page is as old as the last fault at least, since it was one;   *)
(* only genuine messages fetch, and none that is acceptable was refused.   *)
Phases == {"waiting", "fetching", "verified", "accepted", "refused", "given up"}

SnsInv ==
  /\ envelope \in [SnsMessages -> Envelopes] /\ phase \in [SnsMessages -> Phases]
  /\ tries \in [SnsMessages -> Nat]
  /\ certAge \in [SnsUrls -> 0..CertTtl] /\ calm \in 0..CertTtl
  /\ cached \in [SnsUrls -> {"nothing", "certificate", "page"}]
  /\ \A u \in SnsUrls : cached[u] = "page" => certAge[u] >= calm
  /\ \A m \in SnsMessages : phase[m] = "fetching" => Genuine(m) /\ envelope[m].checked
  /\ \A m \in SnsMessages : Acceptable(envelope[m]) => phase[m] # "refused"

(* No step takes an acceptable message away, or has it fail in quiet times. *)
Unspoilt ==
  \A m \in SnsMessages : Acceptable(envelope[m]) =>
    /\ phase'[m] # "refused"
    /\ calm = CertTtl /\ calm' = CertTtl => tries'[m] = tries[m]

(* What a handler does with its message, and to no other: it fails in      *)
(* consequence of a fault, or of a page that is fresh.                     *)
Handled(m) ==
  /\ envelope' = envelope /\ calm' \in {0, calm}
  /\ phase' \in [SnsMessages -> Phases] /\ tries' \in [SnsMessages -> Nat]
  /\ \A n \in SnsMessages \ {m} : phase'[n] = phase[n] /\ tries'[n] = tries[n]
  /\ phase'[m] = "fetching" => Genuine(m) /\ envelope[m].checked
  /\ phase'[m] = "refused" => ~Acceptable(envelope[m])
  /\ tries'[m] = tries[m] \/ calm' = 0 \/ ~Acceptable(envelope[m])
       \/ \E u \in SnsUrls : cached[u] = "page" /\ IsFresh(u)

(* The cache stays as it is, or takes a page only by a fault.              *)
Cached ==
  \/ UNCHANGED <<cached, certAge>>
  \/ \E u \in SnsUrls : SetCached(u, "certificate") \/ (SetCached(u, "page") /\ calm' = 0)

(* What the two ways of an outcome write. *)
LEMMA MoveEffect ==
  ASSUME SnsInv, NEW m \in SnsMessages, NEW p \in Phases, Move(m, p)
  PROVE  /\ phase' \in [SnsMessages -> Phases] /\ phase'[m] = p
         /\ tries' \in [SnsMessages -> Nat] /\ tries'[m] = tries[m]
         /\ \A n \in SnsMessages \ {m} : phase'[n] = phase[n] /\ tries'[n] = tries[n]
BY DEF SnsInv, Move

LEMMA FailEffect ==
  ASSUME SnsInv, NEW S \in SUBSET SnsMessages, Fail(S)
  PROVE  /\ phase' \in [SnsMessages -> Phases]
         /\ tries' \in [SnsMessages -> Nat]
         /\ \A n \in S : phase'[n] \in {"waiting", "given up"}
         /\ \A n \in SnsMessages \ S : phase'[n] = phase[n] /\ tries'[n] = tries[n]
<1>1. tries \in [SnsMessages -> Nat] /\ phase \in [SnsMessages -> Phases]
  BY DEF SnsInv
<1>2. /\ tries' = [n \in SnsMessages |-> IF n \in S THEN tries[n] + 1 ELSE tries[n]]
      /\ phase' = [n \in SnsMessages |-> IF n \notin S THEN phase[n]
                                       ELSE IF tries[n] + 1 < MaxTries THEN "waiting"
                                       ELSE "given up"]
  BY DEF Fail
<1>3. \A n \in S : phase'[n] \in {"waiting", "given up"}
  BY <1>2
<1>4. \A n \in SnsMessages \ S : phase'[n] = phase[n] /\ tries'[n] = tries[n]
  BY <1>2
<1>5. tries' \in [SnsMessages -> Nat]
  <2> DEFINE next(n) == IF n \in S THEN tries[n] + 1 ELSE tries[n]
  <2>1. \A n \in SnsMessages : next(n) \in Nat
    BY <1>1
  <2>2. tries' = [n \in SnsMessages |-> next(n)]
    BY <1>2
  <2> HIDE DEF next
  <2> QED BY <2>1, <2>2
<1>6. phase' \in [SnsMessages -> Phases]
  <2>1. {"waiting", "given up"} \subseteq Phases
    BY DEF Phases
  <2> QED BY <1>1, <1>2, <1>3, <1>4, <2>1
<1> QED BY <1>3, <1>4, <1>5, <1>6

(* The check of a signature, against a page only if that is fresh or new.  *)
LEMMA CheckEffect ==
  ASSUME SnsInv, NEW m \in SnsMessages, NEW data, Check(m, data),
         envelope[m].checked, Genuine(m), envelope' = envelope, calm' \in {0, calm},
         data = "certificate" \/ calm' = 0 \/ \E u \in SnsUrls : cached[u] = "page" /\ IsFresh(u)
  PROVE  Handled(m)
<1>1. CASE data = "certificate" /\ envelope[m].signed /\ Move(m, "verified")
  BY <1>1, MoveEffect DEF Handled, Phases
<1>2. CASE data = "certificate" /\ ~envelope[m].signed /\ Move(m, "refused")
  BY <1>2, MoveEffect DEF Handled, Phases, Acceptable
<1>3. CASE ~(data = "certificate" /\ envelope[m].signed) /\ Fail({m})
  <2>1. data = "certificate" => ~Acceptable(envelope[m])
    BY <1>3 DEF Acceptable
  <2> QED BY <1>3, <2>1, FailEffect DEF Handled
<1> QED BY <1>1, <1>2, <1>3 DEF Check

(* Every statement of a handler. *)
LEMMA SnsHandled ==
  ASSUME SnsInv, NEW m \in SnsMessages, HandleMessage(m)
  PROVE  Handled(m) /\ Cached
<1> USE DEF Faultless, Faulty, Cached
<1>0. envelope[m] \in Envelopes /\ cached \in [SnsUrls -> {"nothing", "certificate", "page"}]
  BY DEF SnsInv
<1>1. CASE ReceiveMessage(m)
  <2>1. CASE ~envelope[m].checked /\ Move(m, "verified") /\ UNCHANGED certAge
    BY <1>1, <2>1, MoveEffect DEF ReceiveMessage, Handled, Phases
  <2>2. CASE envelope[m].checked /\ ~Genuine(m) /\ Move(m, "refused") /\ UNCHANGED certAge
    BY <1>1, <2>2, MoveEffect DEF ReceiveMessage, Handled, Phases, Acceptable, Genuine
  <2>3. CASE envelope[m].checked /\ Genuine(m) /\ IsFresh(envelope[m].cert) /\ UseCached(m)
    BY <1>0, <1>1, <2>3, CheckEffect DEF ReceiveMessage, UseCached, Genuine, IsFresh
  <2>4. CASE envelope[m].checked /\ Genuine(m) /\ Move(m, "fetching") /\ UNCHANGED certAge
    BY <1>1, <2>4, MoveEffect DEF ReceiveMessage, Handled, Phases
  <2> QED BY <1>1, <2>1, <2>2, <2>3, <2>4 DEF ReceiveMessage
<1>2. CASE FetchCertificate(m)
  <2>1. Genuine(m) /\ envelope[m].checked
    BY <1>2 DEF FetchCertificate, SnsInv
  <2> QED BY <1>2, <2>1, CheckEffect DEF FetchCertificate, Genuine
<1>3. CASE FetchFails(m)
  BY <1>3, FailEffect DEF FetchFails, Handled
<1>4. CASE ProcessNotification(m) \/ ConfirmSubscription(m) \/ AnswerOther(m)
  <2>1. UNCHANGED <<envelope, cached, certAge>>
    BY <1>4 DEF ProcessNotification, ConfirmSubscription, AnswerOther
  <2>2. CASE Move(m, "accepted") /\ Faultless
    BY <2>1, <2>2, MoveEffect DEF Handled, Phases
  <2>3. CASE Fail({m}) /\ Faulty
    BY <2>1, <2>3, FailEffect DEF Handled
  <2>4. CASE ~Acceptable(envelope[m]) /\ Move(m, "refused") /\ Faultless
    BY <2>1, <2>4, MoveEffect DEF Handled, Phases
  <2> QED BY <1>4, <2>2, <2>3, <2>4
          DEF ProcessNotification, ConfirmSubscription, AnswerOther, AcceptOrFail, Acceptable
<1> QED BY <1>1, <1>2, <1>3, <1>4 DEF HandleMessage

(* That keeps the invariant, and spoils nothing in quiet times.            *)
LEMMA HandledKeeps ==
  ASSUME SnsInv, NEW m \in SnsMessages, Handled(m), Cached
  PROVE  SnsInv' /\ Unspoilt
<1> USE SnsAssumption DEF SnsAssumption, SnsInv
<1> DEFINE CacheOK ==
             /\ cached \in [SnsUrls -> {"nothing", "certificate", "page"}]
             /\ certAge \in [SnsUrls -> 0..CertTtl] /\ calm \in 0..CertTtl
             /\ \A u \in SnsUrls : cached[u] = "page" => certAge[u] >= calm
<1>1. CacheOK'
  <2>1. CASE UNCHANGED <<cached, certAge>>
    BY <2>1 DEF Handled
  <2>2. ASSUME NEW u \in SnsUrls, NEW d \in {"certificate", "page"}, SetCached(u, d),
               d = "page" => calm' = 0
        PROVE  CacheOK'
    BY <2>2 DEF SetCached, Handled
  <2> QED BY <2>1, <2>2 DEF Cached
<1>2. /\ envelope' \in [SnsMessages -> Envelopes] /\ phase' \in [SnsMessages -> Phases]
      /\ tries' \in [SnsMessages -> Nat]
      /\ \A n \in SnsMessages : phase'[n] = "fetching" => Genuine(n)' /\ envelope'[n].checked
      /\ \A n \in SnsMessages : Acceptable(envelope'[n]) => phase'[n] # "refused"
  BY DEF Handled, Genuine
<1>3. Unspoilt
  BY DEF Unspoilt, Handled, IsFresh
<1> QED BY <1>1, <1>2, <1>3

(* For any number of messages and URLs, any time to live of the cache and  *)
(* any faults: a cached page has messages fail for no longer than that,    *)
(* and no acceptable message is ever answered with a 4xx.                  *)
THEOREM SpoiltNotForLong == SnsSpec => NothingSpoiltForLong
<1>1. SnsInit => SnsInv
  BY SnsAssumption DEF SnsAssumption, SnsInit, SnsInv, Phases
<1>2. SnsInv /\ [SnsNext]_snsVars => SnsInv' /\ [Unspoilt]_snsVars
  <2> SUFFICES ASSUME SnsInv, [SnsNext]_snsVars PROVE SnsInv' /\ [Unspoilt]_snsVars
    OBVIOUS
  <2>1. CASE Restart
    <3> DEFINE cut == {m \in SnsMessages : phase[m] \in {"fetching", "verified"}}
    <3>1. Fail(cut) /\ envelope' = envelope /\ calm' = 0 /\ \A u \in SnsUrls : certAge'[u] = 0
      BY <2>1 DEF Restart, Faulty
    <3>2. \A m \in SnsMessages : phase'[m] \in {"waiting", "given up", phase[m]}
      BY <3>1, FailEffect
    <3>3. phase' \in [SnsMessages -> Phases] /\ tries' \in [SnsMessages -> Nat]
      BY <3>1, FailEffect
    <3>4. /\ cached' \in [SnsUrls -> {"nothing", "certificate", "page"}]
          /\ certAge' \in [SnsUrls -> 0..CertTtl] /\ calm' \in 0..CertTtl
          /\ \A u \in SnsUrls : cached'[u] = "page" => certAge'[u] >= calm'
      BY <2>1, <3>1, SnsAssumption DEF SnsAssumption, Restart
    <3> QED BY <3>1, <3>2, <3>3, <3>4, SnsAssumption
            DEF SnsAssumption, SnsInv, Genuine, Unspoilt
  <2>2. CASE CertAges
    BY <2>2, SnsAssumption DEF SnsAssumption, SnsInv, CertAges, Older, Genuine, Unspoilt
  <2>3. CASE UNCHANGED snsVars
    BY <2>3 DEF snsVars, SnsInv, Genuine
  <2> QED BY <2>1, <2>2, <2>3, SnsHandled, HandledKeeps DEF SnsNext
<1> QED BY <1>1, <1>2, PTL DEF SnsSpec, NothingSpoiltForLong, Unspoilt
=============================================================================
