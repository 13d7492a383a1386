----------------------------- MODULE RateLimiter -----------------------------
(***************************************************************************)
(* The per-IP rate limiter (api.rs, IpRateLimiter): a counter and the      *)
(* start of its window for each address, behind a mutex, a bound on the    *)
(* addresses, and a task that removes old ones.  Time is a number of       *)
(* ticks, several to a second, since windows start at any time.            *)
(***************************************************************************)
EXTENDS Integers, FiniteSets

CONSTANTS
  Addresses,
  Limit,         (* server.ip_rate_limit, of which 0 turns the limiter off    *)
  MaxEntries,    (* MAX_IP_ENTRIES                                            *)
  Window,        (* ticks in a second                                         *)
  KeepFor,       (* ticks in the sixty seconds for which an entry is kept     *)
  MaxNow         (* bound on time                                             *)

ASSUME LimiterAssumption ==
  /\ Limit \in Nat \ {0} /\ MaxEntries \in Nat /\ MaxNow \in Nat
  /\ Window \in Nat \ {0} /\ KeepFor \in Nat /\ KeepFor >= Window

VARIABLES
  now,
  entries,     (* the map: a function from the addresses it holds             *)
  passed       (* history: how many requests of each address were let through *)
               (* before each tick                                            *)

limiterVars == <<now, entries, passed>>

Instants == 0..(MaxNow + 1)

(* entry.or_insert((0, now))                                               *)
EntryOf(ip) == IF ip \in DOMAIN entries THEN entries[ip] ELSE [count |-> 0, since |-> now]

HasRoom(ip) == ip \in DOMAIN entries \/ Cardinality(DOMAIN entries) < MaxEntries

(* A window that is a second old makes way for a new one.                  *)
IsOver(e) == now - e.since >= Window

Put(ip, e) ==
  entries' = [a \in DOMAIN entries \cup {ip} |-> IF a = ip THEN e ELSE entries[a]]

(* check, when it lets the request pass,                                   *)
Admit(ip) ==
  /\ HasRoom(ip)
  /\ LET e == EntryOf(ip)
     IN  \/ IsOver(e) /\ Put(ip, [count |-> 1, since |-> now])
         \/ ~IsOver(e) /\ e.count < Limit /\ Put(ip, [e EXCEPT !.count = @ + 1])
  /\ passed' = [passed EXCEPT ![ip] = [t \in Instants |-> IF t > now THEN @[t] + 1 ELSE @[t]]]
  /\ UNCHANGED now

(* and when it answers 429, which changes nothing: an address at its limit *)
(* has an entry, and one for which there is no room gets none.             *)

(* Mutant of IsKept: the comparison is turned round.                       *)
IsKeptOld(e) == now - e.since >= KeepFor

(* cleanup keeps the entries whose window is not sixty seconds old.        *)
IsKept(e) == now - e.since < KeepFor

Cleanup ==
  /\ entries' = [ip \in {a \in DOMAIN entries : IsKept(entries[a])} |-> entries[ip]]
  /\ UNCHANGED <<now, passed>>

LimiterTick ==
  /\ now < MaxNow
  /\ now' = now + 1
  /\ UNCHANGED <<entries, passed>>

LimiterInit ==
  /\ now = 0
  /\ entries = [ip \in {} |-> 0]
  /\ passed = [ip \in Addresses |-> [t \in Instants |-> 0]]

LimiterNext == (\E ip \in Addresses : Admit(ip)) \/ Cleanup \/ LimiterTick

LimiterSpec == LimiterInit /\ [][LimiterNext]_limiterVars

(* However its requests fall on the windows, and whatever is cleaned up    *)
(* meanwhile, no address gets more than twice the limit through in any     *)
(* second (api.rs, IpRateLimiter: its windows are fixed, so the limit      *)
(* itself can be exceeded where two of them meet).                         *)
BurstBounded ==
  \A ip \in Addresses : \A t, u \in 0..(now + 1) :
    t <= u /\ u <= t + Window => passed[ip][u] - passed[ip][t] <= 2 * Limit
=============================================================================
