------------------------------ MODULE MCStartup ------------------------------
(* Processes and files for Startup.                                        *)
EXTENDS Startup, TLC

CONSTANTS p1, p2

\* A daemon beside an API server, another daemon or an operator's command.
MCRoles ==
  { [p \in {p1, p2} |-> IF p = p1 THEN "start" ELSE r] :
      r \in {"api", "start", "ingest", "status"} }

Profile(enabled, network, of) ==
  [enabled |-> enabled, network |-> network,
   policy |-> [valid |-> TRUE, chain |-> of, read |-> <<"node", "spare">>]]

Config(sui, bitcoin, origins) ==
  [url |-> "sqlite://a", cors_origins |-> origins,
   chains |-> ("sui" :> sui) @@ ("bitcoin" :> bitcoin)]

\* Sui on the testnet; bitcoin enabled as well; a policy of another chain.
MCConfigs ==
  { Config(Profile(TRUE, "testnet", "sui"), Profile(FALSE, "testnet", "bitcoin"), {}),
    Config(Profile(TRUE, "testnet", "sui"), Profile(TRUE, "testnet", "bitcoin"), {"*"}),
    Config(Profile(TRUE, "testnet", "aptos"), Profile(FALSE, "testnet", "bitcoin"), {}),
    Absent }

Manifest(signature, network, package) ==
  [signature |-> signature,
   deployments |-> [c \in {"sui", "bitcoin"} |->
     [network |-> network, contracts |-> {}, program_id |-> Absent,
      package_id |-> package, module_address |-> Absent]]]

MCManifests ==
  { Absent, Manifest("s", "testnet", "0x1"), Manifest("s", "mainnet", "0x1"),
    Manifest("", "testnet", "0x1") }

\* No file, one that does not parse, and one that does.
MCRpcFiles == { Absent, Refused, [c \in {"sui"} |-> "node"] }

\* All is well, and no rpc_config.json; or there is nothing at all.
MCFilesAtFirst ==
  { [config |-> Config(Profile(TRUE, "testnet", "sui"),
                       Profile(FALSE, "testnet", "bitcoin"), {}),
     manifest |-> Manifest("s", "testnet", "0x1"), rpc |-> Absent],
    [config |-> Absent, manifest |-> Absent, rpc |-> Absent] }
=============================================================================
