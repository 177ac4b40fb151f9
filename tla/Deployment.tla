------------------------------ MODULE Deployment ------------------------------
(***************************************************************************)
(* What the files beside a process mean: its configuration, the deployment *)
(* manifest and rpc_config.json.  All three are written by operators and   *)
(* read once, when a process starts.                                       *)
(***************************************************************************)
EXTENDS Integers, Sequences, FiniteSets

CONSTANTS
  Absent,   \* no such file, value or variable
  Refused   \* a file or a value that is an error

BuiltIn == {"bitcoin", "ethereum", "solana", "sui", "aptos"}

NoChains == [c \in {} |-> Absent]

-----------------------------------------------------------------------------
(* The configuration.                                                      *)

DefaultDatabase == "sqlite://tuppira.db"

\* with_database_url_override: DATABASE_URL wins, unless it is empty.
DatabaseUrl(url, override) ==
  IF override = Absent THEN url ELSE IF override = "" THEN Refused ELSE override

\* A profile's policy is valid, is of its chain and names a node to read.
ProfileAccepted(chain, profile) ==
  /\ profile.policy.valid
  /\ profile.policy.chain = chain
  /\ profile.policy.read # <<>>

\* with_resolved_rpc_urls: one policy that is not accepted is an error.  The url
\* of the first node that can be read is left out.
ResolvedChains(chains) ==
  IF \A c \in DOMAIN chains : ProfileAccepted(c, chains[c])
  THEN [c \in DOMAIN chains |->
          [enabled |-> chains[c].enabled, network |-> chains[c].network]]
  ELSE Refused

\* load: the file, or the defaults, which know no chain.
LoadConfig(file, override) ==
  LET url == DatabaseUrl(IF file = Absent THEN DefaultDatabase ELSE file.url,
                         override)
      chains == IF file = Absent THEN NoChains ELSE ResolvedChains(file.chains)
  IN  IF Refused \in {url, chains} THEN Refused
      ELSE [url |-> url, chains |-> chains,
            cors_origins |-> IF file = Absent THEN {} ELSE file.cors_origins]

Enabled(chains) == { c \in DOMAIN chains : chains[c].enabled }

-----------------------------------------------------------------------------
(* The deployment manifest.                                                *)

\* validate_identifier: the identity of what is deployed on a chain, one of
\* its own kind.  Bitcoin has none.
HasIdentifier(chain, deployment) ==
  \/ chain = "ethereum"
       /\ \E c \in deployment.contracts : c.address # "" /\ c.abi_hash # Absent
  \/ chain = "solana" /\ deployment.program_id \notin {Absent, ""}
  \/ chain = "sui" /\ deployment.package_id \notin {Absent, ""}
  \/ chain = "aptos" /\ deployment.module_address \notin {Absent, ""}

\* Mutant of Admitted: the network of a deployment is not compared.
AdmittedOnAnyNetwork(chain, network, manifest) ==
  /\ chain \in DOMAIN manifest.deployments
  /\ HasIdentifier(chain, manifest.deployments[chain])

\* The manifest has a deployment of the chain on its network.
Admitted(chain, network, manifest) ==
  /\ chain \in DOMAIN manifest.deployments
  /\ manifest.deployments[chain].network = network
  /\ HasIdentifier(chain, manifest.deployments[chain])

\* validate_enabled_chains, and what Indexer::new asks before: with a chain
\* enabled there must be a signed manifest that admits every enabled one.
ChainsAdmitted(chains, manifest) ==
  \/ Enabled(chains) = {}
  \/ /\ manifest \notin {Absent, Refused}
     /\ manifest.signature \notin {Absent, ""}
     /\ \A c \in Enabled(chains) : Admitted(c, chains[c].network, manifest)

-----------------------------------------------------------------------------
(* rpc_config.json.                                                        *)

\* load_rpc_config: without a file there are built-in endpoints; a file that
\* does not parse is an error.  The endpoints themselves are left out.
RpcConfigLoads(file) == file # Refused
=============================================================================
