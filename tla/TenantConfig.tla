---------------------------- MODULE TenantConfig ----------------------------
(***************************************************************************)
(* The config column of public.tenants (internal/admin): one JSON object   *)
(* with the NightOwl settings and, under "oidc", the OIDC settings, their  *)
(* client secret and the outcome of the last connection test.              *)
(*                                                                         *)
(* The tenant middleware reads the column when a request arrives.  The     *)
(* three handlers that write it merge what they were sent into what was    *)
(* read then, in memory, and write all of it back, with no lock and no     *)
(* look at what the column holds by now.  Between the read and the write   *)
(* of a connection test lie calls to the OIDC provider, of up to 10        *)
(* seconds each.                                                           *)
(*                                                                         *)
(* One tenant; nobody else writes its row while the system serves.         *)
(***************************************************************************)
EXTENDS Naturals

CONSTANTS
  Requests,  \* admin requests in flight at one time
  Values,    \* what a field is set to; for a secret, its ciphertext
  Unset      \* a field that is not there

ASSUME UnsetAssumption == Unset \notin Values

VARIABLES
  config,    \* the column
  requests,  \* requests[r]: the config r was resolved with, and the fields set since then
  agreed,    \* history variable: what each field was last set to by the request meant to
  lost       \* history variable: the fields that overlapping requests may have undone

tvars == <<config, requests, agreed, lost>>

-----------------------------------------------------------------------------
(* Configs and changes *)

NightOwlFields == {"nightowl_api_url", "nightowl_api_key"}
\* Issuer, client, groups and the switch, which UpdateOIDCConfig replaces together; the
\* secret, which it replaces when it is sent one; time and result of the last test.
OIDCFields == {"settings", "client_secret", "last_test"}
Fields == NightOwlFields \cup OIDCFields

Config == [Fields -> Values \cup {Unset}]

Idle == [pc |-> "idle"]
Resolved == [pc : {"resolved"}, config : Config, news : SUBSET Fields]

TypeOK ==
  /\ config \in Config
  /\ requests \in [Requests -> {Idle} \cup Resolved]
  /\ agreed \in Config
  /\ lost \subseteq Fields

\* The config c with the fields of a change set.
Merge(c, change) == [f \in Fields |-> IF f \in DOMAIN change THEN change[f] ELSE c[f]]

Init ==
  /\ config = [f \in Fields |-> Unset]
  /\ requests = [r \in Requests |-> Idle]
  /\ agreed = config
  /\ lost = {}

-----------------------------------------------------------------------------
(* Requests *)

\* ResolveMiddleware: the tenant, with its config, goes into the request's context.
Resolve(r) ==
  /\ requests[r] = Idle
  /\ requests' = [requests EXCEPT ![r] = [pc |-> "resolved", config |-> config, news |-> {}]]
  /\ UNCHANGED <<config, agreed, lost>>

\* UpdateTenant, asked for the fields of change: they are set, and every other field is
\* what it was when r was resolved.
Write(r, change, written) ==
  LET set == DOMAIN change
      news(q) == IF requests[q] = Idle THEN Idle ELSE [requests[q] EXCEPT !.news = @ \cup set]
  IN /\ requests[r].pc = "resolved"
     /\ config' = written
     /\ agreed' = Merge(agreed, change)
     /\ lost' = (lost \cup requests[r].news) \ set
     /\ requests' = [q \in Requests |-> IF q = r THEN Idle ELSE news(q)]

\* PUT /admin/config: an empty field is one to keep.
UpdateConfig(r) ==
  \E set \in SUBSET NightOwlFields : \E change \in [set -> Values] :
    Write(r, change, Merge(requests[r].config, change))

\* Mutant: the section is rebuilt from the request, a missing client secret included.
UpdateOIDCConfigRebuilt(r) ==
  \E set \in {{"settings"}, {"settings", "client_secret"}} : \E change \in [set -> Values] :
    Write(r, change,
          [Merge(requests[r].config, change) EXCEPT
             !["client_secret"] = IF "client_secret" \in set THEN @ ELSE Unset])

\* PUT /admin/config/oidc: without a client secret the existing one is kept; what the last
\* test found is carried over.
UpdateOIDCConfig(r) ==
  \E set \in {{"settings"}, {"settings", "client_secret"}} : \E change \in [set -> Values] :
    Write(r, change, Merge(requests[r].config, change))

\* Mutant: the test saves the settings it was sent to try out.
TestOIDCConfigSaves(r) ==
  \E change \in [{"last_test"} -> Values], v \in Values :
    Write(r, change, [Merge(requests[r].config, change) EXCEPT !["settings"] = v])

\* POST /admin/config/oidc/test, once the provider has answered or failed to.
TestOIDCConfig(r) ==
  \E change \in [{"last_test"} -> Values] :
    Write(r, change, Merge(requests[r].config, change))

\* An early return, a failing UPDATE, the timeout or a restart.
End(r) ==
  /\ requests[r].pc = "resolved"
  /\ requests' = [requests EXCEPT ![r] = Idle]
  /\ UNCHANGED <<config, agreed, lost>>

-----------------------------------------------------------------------------
(* Specification *)

Next ==
  \E r \in Requests :
    \/ Resolve(r)
    \/ UpdateConfig(r)
    \/ UpdateOIDCConfig(r)
    \/ TestOIDCConfig(r)
    \/ End(r)

Spec == Init /\ [][Next]_tvars

-----------------------------------------------------------------------------
(* Properties *)

\* What an admin has set stays until an admin sets it again, unless a request that began
\* before it was set writes the config back after: the three handlers leave each other's
\* fields alone, fields left empty are kept, and a loss does not spread to other fields.
OnlyOverlapLoses == \A f \in Fields \ lost : config[f] = agreed[f]

\* The inductive invariant behind it: what a request was resolved with is up to date but
\* for the fields set since then, and those lost already.
NewsComplete ==
  \A r \in Requests : requests[r] # Idle =>
    \A f \in Fields \ (requests[r].news \cup lost) : requests[r].config[f] = agreed[f]

ConfigInv == TypeOK /\ OnlyOverlapLoses /\ NewsComplete
=============================================================================
