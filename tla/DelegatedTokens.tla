--------------------------- MODULE DelegatedTokens ----------------------------
(* Tokens that act for a user at an audience: exchanged for the M2M token   *)
(* of the service, and cached in Redis under the user, the audience and the *)
(* scopes.  Time is counted in ticks; a tick passes whenever nothing is     *)
(* late.                                                                    *)
EXTENDS Naturals, CompletionActors

CONSTANTS
  Strings,       (* audiences and normalized scopes                         *)
  NoExchange,
  Lifetimes,     (* values of expires_in                                    *)
  Margin,        (* DEFAULT_REFRESH_MARGIN_SECONDS                          *)
  CacheTTL,      (* DEFAULT_TOKEN_CACHE_TTL                                 *)
  MaxLatency,    (* the longest time between a token's issue and its arrival *)
  MaxTime        (* bound on the clock                                      *)

(* The issuer's clock runs while its answer travels, the expiry is counted  *)
(* from the arrival: the margin has to make up for it.                      *)
ASSUME DelegatedTokensAssumption ==
  /\ Lifetimes \subseteq Nat
  /\ Margin \in Nat /\ CacheTTL \in Nat /\ MaxLatency \in Nat /\ MaxTime \in Nat
  /\ MaxLatency <= Margin

VARIABLES
  now,
  cache,         (* entries: key, token and expires_at, kept until a time   *)
  exchange       (* exchange[r]: the token issued to r and not arrived      *)

tokenVars == <<now, cache, exchange>>

Key   == Users \X Strings \X Strings
Token == [key : Key, dies : Nat]
Entry == [key : Key, token : Token, expires : Nat, until : Nat]
Exchange == [token : Token, life : Lifetimes, since : Nat]

(* Faulty: tokens of all users share an entry.                              *)
SameEntryForAll(e, key) == e.key[2] = key[2] /\ e.key[3] = key[3]

(* _cache_key                                                               *)
SameEntry(e, key) == e.key = key

(* Faulty: counts on the expiry to the last.                                *)
FreshToTheEnd(e) == e.expires > now

(* _is_cached_token_valid                                                   *)
Fresh(e) == e.expires > now + Margin

Cached(key) == {e \in cache : SameEntry(e, key) /\ now < e.until /\ Fresh(e)}

TokensInit ==
  /\ now = 0
  /\ cache = {}
  /\ exchange = [r \in Callers |-> NoExchange]

(* exchange_token: the issuer decides how long the token lives.             *)
AskToken(r, key) ==
  /\ exchange[r] = NoExchange
  /\ \E life \in Lifetimes :
       exchange' = [exchange EXCEPT ![r] =
         [token |-> [key |-> key, dies |-> now + life], life |-> life, since |-> now]]
  /\ UNCHANGED <<now, cache>>

Largest(m, n)  == IF m > n THEN m ELSE n
Smallest(m, n) == IF m < n THEN m ELSE n

NewEntry(x) ==
  [key |-> x.token.key, token |-> x.token, expires |-> now + x.life,
   until |-> now + Largest(1, Smallest(x.life, CacheTTL))]

(* The token arrives and takes the place of what another run cached.        *)
KeepToken(r) ==
  /\ exchange[r] # NoExchange
  /\ LET entry == NewEntry(exchange[r])
     IN cache' = {e \in cache : ~SameEntry(e, entry.key)} \cup {entry}
  /\ exchange' = [exchange EXCEPT ![r] = NoExchange]
  /\ UNCHANGED now

LoseToken(r) ==
  /\ exchange' = [exchange EXCEPT ![r] = NoExchange]
  /\ UNCHANGED <<now, cache>>

(* Redis may drop an entry before its time.                                 *)
Evict ==
  /\ \E e \in cache : cache' = cache \ {e}
  /\ UNCHANGED <<now, exchange>>

Tick ==
  /\ now < MaxTime
  /\ \A r \in Callers : exchange[r] # NoExchange => now < exchange[r].since + MaxLatency
  /\ now' = now + 1
  /\ cache' = {e \in cache : now' < e.until}
  /\ UNCHANGED exchange

TokensTypeOK ==
  /\ now \in Nat
  /\ cache \subseteq Entry
  /\ exchange \in [Callers -> Exchange \cup {NoExchange}]
=============================================================================
