----------------------------- MODULE MCServices -----------------------------
(***************************************************************************)
(* Four services of the program, which share no state: in every behaviour  *)
(* one of them runs, chosen at the start, and the others rest.             *)
(***************************************************************************)
EXTENDS ClaimTable, Discovery, InstallStore, ModuleHost

\* The program as it was, and a later build that ships its module renamed, of which a
\* request may install an older version.
MCPackages == {<<"hyperpane", 1>>, <<"orchestrator", 1>>, <<"orchestrator", 2>>}
MCApps ==
  {[bundle |-> {<<"hyperpane", 1>>}, renames |-> {}],
   [bundle |-> {<<"orchestrator", 2>>}, renames |-> {<<"hyperpane", "orchestrator">>}]}

VARIABLE service

servicesVars == <<service, claimVars, discoveryVars, storeVars, hostVars>>

ServicesInit ==
  /\ service \in {"claims", "discovery", "store", "host"}
  /\ ClaimInit /\ DiscoveryInit /\ StoreInit /\ HostInit
  /\ service # "claims" => shows = {}

ServicesNext ==
  \/ service = "claims" /\ ClaimNext /\ UNCHANGED <<discoveryVars, storeVars, hostVars>>
  \/ service = "discovery" /\ DiscoveryNext /\ UNCHANGED <<claimVars, storeVars, hostVars>>
  \/ service = "store" /\ StoreNext /\ UNCHANGED <<claimVars, discoveryVars, hostVars>>
  \/ service = "host" /\ HostNext /\ UNCHANGED <<claimVars, discoveryVars, storeVars>>

ServicesSpec ==
  ServicesInit /\ [][ServicesNext /\ UNCHANGED service]_servicesVars
-----------------------------------------------------------------------------
\* The state of the service at work is of its types; the others are as they began.
\* Beyond the types: a window whose connection is being closed does not own the claim
\* over a live link, a server that has not ended belongs to an instance that lives, no
\* job is under way in a store whose program is down, and the process of a slot was
\* started for it.
ServicesTypeOK ==
  /\ service = "claims" => ClaimTypeOK
  /\ service = "discovery" => DiscoveryTypeOK
  /\ service = "store" => StoreTypeOK
  /\ service = "host" => HostTypeOK
=============================================================================
