------------------------------- MODULE Startup -------------------------------
(***************************************************************************)
(* From the start of a process of Tuppira to its service: it loads its     *)
(* configuration, opens the database with everyone else, and then either   *)
(* serves the API, ingests the Piteka feed, or builds an indexer, which    *)
(* reads the deployment manifest and rpc_config.json and spawns a task for *)
(* each enabled chain.  A process that meets an error exits; the compose   *)
(* file restarts it.  Operators replace the files meanwhile.  The daemon   *)
(* never leaves its main loop (nothing calls stop), so a signal kills it:  *)
(* that is Die.                                                            *)
(***************************************************************************)
EXTENDS Migrations, Deployment

CONSTANTS
  Roles,       \* the commands processes may run, each its own
  FilesAtFirst,  \* [config, manifest, rpc]: what is on disk at first
  Configs, Manifests, RpcFiles,  \* what operators put in place of them
  Override,    \* DATABASE_URL
  MaxEdits     \* bound: replaced files

ASSUME StartupAssumption ==
  /\ Roles \subseteq [Process -> {"api", "start", "ingest", "status"}]
  /\ MaxEdits \in Nat
  /\ \A f \in FilesAtFirst : DOMAIN f = {"config", "manifest", "rpc"}

VARIABLES
  role,      \* the command of each process; it never changes
  files,     \* what is on disk
  edits,
  settings,  \* the configuration a process has loaded
  manifest,  \* the manifest its indexer was built under
  tasks      \* chain -> network of the tasks it has spawned

fileVars == <<role, files, edits>>

processVars == <<settings, manifest, tasks>>

vars == <<schemaVars, fileVars, processVars>>

NoTasks == [c \in {} |-> Absent]

Init ==
  /\ MigrationsInit
  /\ role \in Roles
  /\ files \in FilesAtFirst
  /\ edits = 0
  /\ settings = [p \in Process |-> Absent]
  /\ manifest = [p \in Process |-> Absent]
  /\ tasks = [p \in Process |-> NoTasks]

\* A process that exits remembers nothing.
Forget(p) ==
  /\ settings' = [settings EXCEPT ![p] = Absent]
  /\ manifest' = [manifest EXCEPT ![p] = Absent]
  /\ tasks' = [tasks EXCEPT ![p] = NoTasks]

\* A step that may end the process.
ForgetIfOff(p) ==
  IF pc'[p] = "off" THEN Forget(p) ELSE UNCHANGED processVars

-----------------------------------------------------------------------------
(* An operator replaces one of the files.                                  *)
Edit ==
  /\ edits < MaxEdits
  /\ edits' = edits + 1
  /\ \/ \E f \in Configs : files' = [files EXCEPT !.config = f]
     \/ \E f \in Manifests : files' = [files EXCEPT !.manifest = f]
     \/ \E f \in RpcFiles : files' = [files EXCEPT !.rpc = f]
  /\ UNCHANGED <<schemaVars, role, processVars>>

(* A process starts: with a configuration it cannot load it exits again.   *)
Launch(p) ==
  LET config == LoadConfig(files.config, Override) IN
  /\ config # Refused
  /\ InitPool(p)
  /\ settings' = [settings EXCEPT ![p] = config]
  /\ UNCHANGED <<fileVars, manifest, tasks>>

(* init_pool.                                                              *)
OpenDatabase(p) ==
  /\ Open(p)
  /\ ForgetIfOff(p)
  /\ UNCHANGED fileVars

Advance(p, step) ==
  /\ Goto(p, step)
  /\ UNCHANGED <<database, found, applied, version, faults, fileVars>>

\* An error after the database is open.
GiveUp(p) == Exit(p) /\ Forget(p) /\ UNCHANGED <<faults, fileVars>>

(* ApiServer::start: it serves unless its origins are wildcards.           *)
ServeApi(p) ==
  /\ pc[p] = "open" /\ role[p] = "api"
  /\ \/ "*" \notin settings[p].cors_origins
        /\ Advance(p, "serving") /\ UNCHANGED processVars
     \/ "*" \in settings[p].cors_origins /\ GiveUp(p)

(* ingest-piteka builds no indexer: no manifest keeps it from its feed.    *)
Ingest(p) ==
  /\ pc[p] = "open" /\ role[p] = "ingest"
  /\ Advance(p, "serving")
  /\ UNCHANGED processVars

(* Indexer::new, first part: the manifest, if any chain is enabled.        *)
CheckManifest(p) ==
  /\ pc[p] = "open" /\ role[p] \in {"start", "status"}
  /\ \/ /\ ChainsAdmitted(settings[p].chains, files.manifest)
        /\ Advance(p, "admitted")
        /\ manifest' = [manifest EXCEPT ![p] = files.manifest]
        /\ UNCHANGED <<settings, tasks>>
     \/ ~ChainsAdmitted(settings[p].chains, files.manifest) /\ GiveUp(p)

\* Mutant of Spawned: chains that are not enabled are indexed too.
SpawnedForAll(chains) == [c \in DOMAIN chains \cap BuiltIn |-> chains[c].network]

\* create_all_arc_indexers, SyncCoordinator::new and start: an indexer and a
\* task for every enabled chain that has one.
Spawned(chains) == [c \in Enabled(chains) \cap BuiltIn |-> chains[c].network]

(* Indexer::new, second part: rpc_config.json; then the daemon starts its  *)
(* tasks.  Which node a task asks is left out.                             *)
StartTasks(p) ==
  /\ pc[p] = "admitted" /\ role[p] = "start"
  /\ \/ /\ RpcConfigLoads(files.rpc)
        /\ Advance(p, "serving")
        /\ tasks' = [tasks EXCEPT ![p] = Spawned(settings[p].chains)]
        /\ UNCHANGED <<settings, manifest>>
     \/ ~RpcConfigLoads(files.rpc) /\ GiveUp(p)

(* A command builds an indexer like the daemon, does its work (here it     *)
(* shows a status) or fails, and the process ends.                         *)
RunCommand(p) ==
  /\ pc[p] = "admitted" /\ role[p] = "status"
  /\ GiveUp(p)

(* A process dies, or an error makes it exit.                              *)
Crash(p) == Die(p) /\ Forget(p) /\ UNCHANGED fileVars

Serve(p) ==
  \/ ServeApi(p)
  \/ Ingest(p)
  \/ CheckManifest(p)
  \/ StartTasks(p)
  \/ RunCommand(p)

Next ==
  \/ Edit
  \/ \E p \in Process :
       \/ Launch(p)
       \/ OpenDatabase(p)
       \/ Serve(p)
       \/ Crash(p)

Spec == Init /\ [][Next]_vars

\* What the compose file runs, and starts again when it exits.
Supervised(p) == role[p] \in {"api", "start"}

\* Processes are scheduled, and supervised ones are started again.
FairSpec ==
  /\ Spec
  /\ \A p \in Process :
       /\ WF_vars(OpenDatabase(p))
       /\ WF_vars(Serve(p))
       /\ WF_vars(Supervised(p) /\ Launch(p))

-----------------------------------------------------------------------------
(* A daemon's tasks are for exactly the chains that are enabled in the     *)
(* configuration it loaded, and never for bitcoin, whose deployment has no *)
(* identity to check.  Each is on the network that a signed manifest had   *)
(* for it when the indexer was built.  So it is whichever files are        *)
(* replaced between the steps of the start.  Nothing is said of the node a *)
(* task asks, which need not be one of that network.                       *)
ChainsAsConfigured ==
  \A p \in Process :
    /\ pc[p] # "serving" => tasks[p] = NoTasks
    /\ pc[p] = "serving" /\ role[p] = "start" =>
         LET chains == settings[p].chains IN
         /\ \A c \in DOMAIN chains :
              chains[c].enabled <=> c \in DOMAIN tasks[p]
         /\ "bitcoin" \notin DOMAIN tasks[p]
         /\ \A c \in DOMAIN tasks[p] :
              /\ tasks[p][c] = chains[c].network
              /\ manifest[p].deployments[c].network = chains[c].network
              /\ manifest[p].signature \notin {Absent, ""}

(* A database with a ledger is opened by everyone: whatever races, deaths  *)
(* and refusals there were, a supervised process whose files are in order  *)
(* from some time on serves from some time on.                             *)
EveryoneServes ==
  \A p \in Process :
    ~Unversioned /\ Supervised(p) =>
      (<>[](LET config == LoadConfig(files.config, Override) IN
           /\ config # Refused
           /\ role[p] = "api" => "*" \notin config.cors_origins
           /\ role[p] = "start" =>
                /\ ChainsAdmitted(config.chains, files.manifest)
                /\ RpcConfigLoads(files.rpc))
        => <>[](pc[p] = "serving"))
=============================================================================
