------------------------------ MODULE InitAuth ------------------------------
(***************************************************************************)
(* Client.InitAuth of clob/client.go and DeriveApiCreds of clob/auth.go:   *)
(* the API credentials of an account are created, or derived where that    *)
(* fails.  The exchange keeps one set of credentials for an account and    *)
(* nonce (always 0 here); other programs of the account have them made     *)
(* too, and the owner may delete them.  Any request or answer may be lost. *)
(***************************************************************************)
EXTENDS Naturals

CONSTANT MaxKeys    \* bound: credentials the exchange ever makes

ASSUME KeysAssumption == MaxKeys \in Nat

NoCreds == 0        \* a nil pointer

VARIABLES
    keys,           \* credentials the exchange has made
    current,        \* the ones that are valid
    auth,           \* where InitAuth is
    reply,          \* the answer on its way, NoCreds for a refusal
    since,          \* the credentials that were valid at some time of the call
    creds           \* c.creds

authVars == <<keys, current, auth, reply, since, creds>>

Unauthenticated ==
    /\ keys = 0
    /\ current = NoCreds
    /\ auth = "idle"
    /\ reply = NoCreds
    /\ since = {}
    /\ creds = NoCreds

-----------------------------------------------------------------------------
(* The exchange *)

CanMake == current = NoCreds /\ keys < MaxKeys

Makes ==
    /\ CanMake
    /\ keys' = keys + 1
    /\ current' = keys'
    /\ since' = IF auth = "idle" THEN {} ELSE since \cup {current'}

OthersCreate == Makes /\ UNCHANGED <<auth, reply, creds>>

KeyDeleted ==
    /\ current # NoCreds
    /\ current' = NoCreds
    /\ UNCHANGED <<keys, auth, reply, since, creds>>

\* Credentials are made for an account that has none, and for no other.
CreateArrives ==
    /\ auth = "create"
    /\ auth' = "created"
    /\ \/ Makes /\ reply' = current'
       \/ ~CanMake /\ reply' = NoCreds /\ UNCHANGED <<keys, current, since>>
    /\ UNCHANGED creds

DeriveArrives ==
    /\ auth = "derive"
    /\ auth' = "derived"
    /\ reply' = current
    /\ UNCHANGED <<keys, current, since, creds>>

-----------------------------------------------------------------------------
(* InitAuth *)

BeginAuth ==
    /\ auth = "idle"
    /\ auth' = "create"
    /\ since' = {current} \ {NoCreds}
    /\ UNCHANGED <<keys, current, reply, creds>>

AuthReturns(value) ==
    /\ auth' = "idle"
    /\ reply' = NoCreds
    /\ since' = {}
    /\ creds' = value
    /\ UNCHANGED <<keys, current>>

Succeeds ==
    /\ auth \in {"created", "derived"} /\ reply # NoCreds
    /\ AuthReturns(reply)

\* No answer in 15 seconds, another status than 200, or no JSON.
CreateFails ==
    /\ auth \in {"create", "created"}
    /\ auth' = "derive"
    /\ reply' = NoCreds
    /\ UNCHANGED <<keys, current, since, creds>>

\* Mutant: the credentials are stored before the error is looked at.
DeriveFailsStoring ==
    /\ auth \in {"derive", "derived"}
    /\ AuthReturns(reply)

DeriveFails ==
    /\ auth \in {"derive", "derived"}
    /\ AuthReturns(creds)

Authenticate == CreateArrives \/ DeriveArrives \/ Succeeds \/ CreateFails \/ DeriveFails

AuthNext == BeginAuth \/ Authenticate \/ OthersCreate \/ KeyDeleted

-----------------------------------------------------------------------------
(* Properties *)

\* Whatever is lost and whoever else has credentials made, InitAuth puts
\* credentials in place that were valid while it ran, or leaves the old ones.
CredsValid == [][creds' # creds => creds' \in since]_authVars
=============================================================================
