----------------------------- MODULE RatesProvider -----------------------------
(***************************************************************************)
(* ExchangeRatesProvider of the worker: a cache by date in front of a list *)
(* of providers tried in order.  A call that misses the cache keeps the    *)
(* position it has reached in the list across its awaits, whatever becomes *)
(* of its caller: nothing cancels it.  Rates are named by the position of  *)
(* the provider that answered.                                             *)
(***************************************************************************)
EXTENDS Naturals

CONSTANTS
  Dates,      \* the dates rates are asked for
  Calls,      \* the calls of getRates
  Providers,  \* the number of providers, at least one
  None        \* undefined

VARIABLES
  cache,  \* [Dates -> 1..Providers \cup {None}]
  fetch   \* [Calls -> [date, provider] or None]: the provider the call awaits

ratesVars == <<cache, fetch>>

RatesInit ==
  /\ cache = [d \in Dates |-> None]
  /\ fetch = [c \in Calls |-> None]

Hit(d)  == cache[d] # None
Miss(d) == cache[d] = None

(* The call finds no cached rates and asks the first provider. *)
AskFirst(c, d) ==
  /\ fetch' = [fetch EXCEPT ![c] = [date |-> d, provider |-> 1]]
  /\ UNCHANGED cache

Answer(c) ==
  /\ fetch[c] # None
  /\ cache' = [cache EXCEPT ![fetch[c].date] = fetch[c].provider]
  /\ fetch' = [fetch EXCEPT ![c] = None]

AskNext(c) ==
  /\ fetch[c] # None /\ fetch[c].provider < Providers
  /\ fetch' = [fetch EXCEPT ![c].provider = @ + 1]
  /\ UNCHANGED cache

(* The last provider has failed: the call throws its error. *)
GiveUp(c) ==
  /\ fetch[c] # None /\ fetch[c].provider = Providers
  /\ fetch' = [fetch EXCEPT ![c] = None]
  /\ UNCHANGED cache
=============================================================================
