--------------------------- MODULE AdminProvider ---------------------------
(***************************************************************************)
(* keycloak.AdminProvider: the object that decides which Keycloak account  *)
(* the operator authenticates as.  It keeps one Admin API client, the      *)
(* credential that client was built with, and the deadline before which a  *)
(* rejected internal account is not tried again.                           *)
(*                                                                         *)
(* The module has no state of its own.  Get is given as the set of its     *)
(* possible outcomes, each with the provider it leaves behind, because two *)
(* providers of the same kind live in the operator: the one shared by the  *)
(* Keycloak resource controllers and the one of the Keycloak component.    *)
(***************************************************************************)
CONSTANTS
    Passwords,      \* every password that can be generated or stored
    NoPassword,     \* the empty string: no Secret, no key, or no account
    BootPassword    \* the password of the bootstrap account

ASSUME PasswordAssumption ==
    /\ NoPassword \notin Passwords
    /\ BootPassword \notin Passwords
    /\ NoPassword # BootPassword

(***************************************************************************)
(* A client is the credential it authenticates with.  "none" is a nil      *)
(* client, "internal" the account the platform owns, "bootstrap" the one   *)
(* the Keycloak operator created.                                          *)
(***************************************************************************)
InternalClients == [who : {"internal"}, pwd : Passwords]
BootstrapClient == [who |-> "bootstrap", pwd |-> BootPassword]
NoClient == [who |-> "none", pwd |-> NoPassword]
Clients == InternalClients \cup {BootstrapClient, NoClient}

InternalClient(pwd) == [who |-> "internal", pwd |-> pwd]

\* nextInternalAttempt, seen as a flag: the deadline lies in the future.
Providers == [api : Clients, throttled : BOOLEAN]

\* NewAdminProviderForNamespaces.
NewAdminProvider == [api |-> NoClient, throttled |-> FALSE]

(***************************************************************************)
(* cached: the held client is reused only while its credential is still    *)
(* the one in the Secret.  It is not verified again.                       *)
(***************************************************************************)
cached(p, client) == p.api = client

(***************************************************************************)
(* verifyInternal: the possible results.  A throttled                      *)
(* provider does not try.  "accepts" says whether Keycloak would issue a   *)
(* token for this password now, "flaky" whether the request may fail for   *)
(* another reason; either rejection starts the throttle.                   *)
(***************************************************************************)
verifyInternal(p, pwd, accepts, flaky) ==
    IF p.throttled THEN {[provider |-> p, ok |-> FALSE]}
    ELSE (IF accepts
          THEN {[provider |-> [api |-> InternalClient(pwd), throttled |-> FALSE], ok |-> TRUE]}
          ELSE {})
         \cup (IF flaky \/ ~accepts
               THEN {[provider |-> [p EXCEPT !.throttled = TRUE], ok |-> FALSE]}
               ELSE {})

\* Mutant of tryInternal: whatever client is held is reused.
tryInternalAnyHeld(p, pwd, accepts, flaky) ==
    IF p.api.who # "none" THEN {[provider |-> p, ok |-> TRUE]}
    ELSE IF pwd = NoPassword THEN {[provider |-> p, ok |-> FALSE]}
    ELSE verifyInternal(p, pwd, accepts, flaky)

\* The internal half of Get: the Secret, then the held client, then a probe.
tryInternal(p, pwd, accepts, flaky) ==
    IF pwd = NoPassword THEN {[provider |-> p, ok |-> FALSE]}
    ELSE IF cached(p, InternalClient(pwd)) THEN {[provider |-> p, ok |-> TRUE]}
    ELSE verifyInternal(p, pwd, accepts, flaky)

\* Mutant of useBootstrap: the client is built before the Secret is read.
useBootstrapUnread(p, bootSecret) ==
    LET empty == [who |-> "bootstrap", pwd |-> NoPassword]
    IN [provider |-> [p EXCEPT !.api = empty], client |-> empty, err |-> "none"]

(***************************************************************************)
(* The bootstrap half of Get.  Without its Secret the call fails with      *)
(* ErrNoAdminCredentials; otherwise the client is built and not verified.  *)
(***************************************************************************)
useBootstrap(p, bootSecret) ==
    IF ~bootSecret
    THEN [provider |-> p, client |-> NoClient, err |-> "missing"]
    ELSE [provider |-> [p EXCEPT !.api = BootstrapClient],
          client |-> BootstrapClient, err |-> "none"]

(***************************************************************************)
(* Get, with SkipInternalAdmin unset.  A Secret that cannot be read ends   *)
(* the call with an error and leaves the provider alone.                   *)
(***************************************************************************)
Get(p, pwd, bootSecret, accepts, flaky) ==
    {IF t.ok THEN [provider |-> t.provider, client |-> t.provider.api, err |-> "none"]
             ELSE useBootstrap(t.provider, bootSecret) :
        t \in tryInternal(p, pwd, accepts, flaky)}
    \cup (IF flaky THEN {[provider |-> p, client |-> NoClient, err |-> "other"]}
                   ELSE {})
=============================================================================
