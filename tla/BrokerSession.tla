--------------------------- MODULE BrokerSession ---------------------------
(***************************************************************************)
(* The Zerodha connection of brokers/zerodha.py: an access token in the    *)
(* client object and a session row in the store, written by the login      *)
(* callback and by disconnect and read by everything that talks to Kite.   *)
(* The environment may bring one that every start puts back into the       *)
(* object.                                                                 *)
(***************************************************************************)
CONSTANTS
    Logins,          \* request tokens; the access token issued for l is l
    EnvToken         \* ZERODHA_ACCESS_TOKEN, or NoToken

VARIABLES
    memory,          \* ZerodhaBrokerClient.access_token
    stored,          \* the access token of the BrokerSessionModel row
    exchanging,      \* logins whose exchange waits for the broker
    seen,            \* logins whose callback has arrived
    removed          \* history: the tokens that disconnects took away

sessionVars == <<memory, stored, exchanging, seen, removed>>

NoToken == "NO_TOKEN"        \* the empty string
NoRow == "NO_ROW"

\* Kite issues a new token for every login.
ASSUME SessionAssumption == {EnvToken, NoToken, NoRow} \cap Logins = {}

SessionTypeOK ==
    /\ memory \in Logins \cup {NoToken, EnvToken}
    /\ stored \in Logins \cup {NoRow}
    /\ exchanging \in SUBSET Logins /\ seen \in SUBSET Logins
    /\ removed \subseteq Logins \cup {EnvToken}

SessionInit ==
    /\ memory = EnvToken /\ stored = NoRow
    /\ exchanging = {} /\ seen = {} /\ removed = {}

\* A form of ExchangeEnds with a plausible bug, for the mutant of PROJECT.json:
\* the client goes back to the configured token when the store fails.
ExchangeFallsBack(l) ==
    /\ l \in exchanging /\ exchanging' = exchanging \ {l}
    /\ \/ memory' = l /\ stored' = l
       \/ memory' = EnvToken /\ UNCHANGED stored
    /\ UNCHANGED <<seen, removed>>

-----------------------------------------------------------------------------
\* _active_access_token: the stored session's token, else the object's.
ActiveToken == IF stored = NoRow THEN memory ELSE stored

Connected == ActiveToken # NoToken

\* The callback route: Kite sends the operator back with a request token.
Callback(l) ==
    /\ l \notin seen
    /\ seen' = seen \cup {l} /\ exchanging' = exchanging \cup {l}
    /\ UNCHANGED <<memory, stored, removed>>

\* save_broker_session merges the one row of the broker; the store may fail.
SaveSession(l) == stored' \in {stored, l}

\* exchange_request_token after its await.  A store that fails leaves the new
\* token in the object only.
ExchangeEnds(l) ==
    /\ l \in exchanging /\ exchanging' = exchanging \ {l}
    /\ memory' = l /\ SaveSession(l)
    /\ UNCHANGED <<seen, removed>>

ExchangeFails(l) ==
    /\ l \in exchanging /\ exchanging' = exchanging \ {l}
    /\ UNCHANGED <<memory, stored, seen, removed>>

Disconnect ==
    /\ memory' = NoToken /\ stored' = NoRow
    /\ removed' = removed \cup ({memory, stored} \ {NoToken, NoRow})
    /\ UNCHANGED <<exchanging, seen>>

\* The store fails: disconnect raises with only the object's token gone.
DisconnectFails ==
    /\ memory' = NoToken
    /\ UNCHANGED <<stored, exchanging, seen, removed>>

\* A start: the exchanges die with the process, the row stays, and the token
\* of the environment counts again.
SessionRestart ==
    /\ memory' = EnvToken /\ exchanging' = {}
    /\ removed' = removed \ {EnvToken}
    /\ UNCHANGED <<stored, seen>>

(***************************************************************************)
(* A token that a disconnect took away is never used again: not by a login *)
(* whose exchange was under way and ends after it, stored or not, not by   *)
(* the fall back from one copy of the token to the other, and not after a  *)
(* restart, except that a start brings the environment's token back.       *)
(***************************************************************************)
DisconnectHolds == ActiveToken \notin removed

-----------------------------------------------------------------------------
\* _asset_class_from_fields, of upper-cased fields.  BCD never reaches
\* CURRENCY: it is in the commodity segments before.
AssetClassOf(i) ==
    CASE i.segment = "MF" \/ i.type = "MF"             -> "MUTUAL_FUND"
      [] i.segment \in {"MCX", "BCD", "MCXFO"}         -> "COMMODITY"
      [] i.segment = "CDS"                             -> "CURRENCY"
      [] OTHER ->
         CASE i.type \in {"FUT", "FUTSTK", "FUTIDX"}             -> "FUTURE"
           [] i.type \in {"CE", "PE", "OPT", "OPTSTK", "OPTIDX"} -> "OPTION"
           [] i.type = "ETF" \/ i.namedETF                       -> "ETF"
           [] OTHER -> IF i.type = "INDEX" THEN "INDEX"
                       ELSE IF i.segment \in {"NSE", "BSE", "NFO"} THEN "EQUITY" ELSE "UNKNOWN"

\* submit_order up to its call: what it refuses without asking the broker.
RefusesOrder(action, class) ==
    ~Connected \/ action = "HOLD" \/ class = "MUTUAL_FUND"
=============================================================================
