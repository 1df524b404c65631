------------------------------ MODULE MCServer ------------------------------
(***************************************************************************)
(* A relay process around its store: opening and migrating the database,   *)
(* the connections and requests it admits, its life from start to exit.    *)
(* A behaviour is a behaviour of the one that part names.                  *)
(***************************************************************************)
EXTENDS Schema

CONSTANTS Parts, old, new, edited, s1, s2, s3, t2, Watcher, Caller

VARIABLES part,
          conn, request, accepting, sockets, admission, waiting, closing,
          front, pcS, stage, error, worker, bound, startup, acceptS, conns, permits,
          signal, refusing, out, exit

connVars == <<conn, request, accepting, sockets, admission, waiting, closing>>
serveVars == <<front, pcS, stage, error, worker, bound, startup, acceptS, conns, permits,
               signal, refusing, out, exit>>

\* An old build, a new one that adds a migration, and one whose second
\* migration was edited.
MCPlan == [o \in Opener |-> CASE o = old -> <<s1, s2>>
                              [] o = new -> <<s1, s2, s3>>
                              [] o = edited -> <<s1, t2>>]

File(owner, wal, ledger) == [owner |-> owner, wal |-> wal, ledger |-> ledger,
                             objects |-> {row[2] : row \in ledger}]

\* A fresh file, a historical one, and two with damaged ledgers.
Fresh == File("unclaimed", FALSE, {})
MCFiles == {Fresh,
            File("psst", TRUE, {<<1, s1>>}),
            File("psst", TRUE, {<<0, s1>>}),
            File("psst", TRUE, {<<1, s1>>, <<3, s3>>})}

\* Two watchers and two commands, for two sockets and one admission, or for three
\* of each: with the first the watchers can take all there is.
Tight == INSTANCE Listener WITH MaxConnections <- 2, MaxInFlight <- 1
Roomy == INSTANCE Listener WITH MaxConnections <- 3, MaxInFlight <- 3

S == INSTANCE Serve WITH
  Fronts <- {"json", "human", "daemon"}, MaxConnections <- 2, pc <- pcS, accept <- acceptS

ASSUME Tight!LimitAssumption /\ Roomy!LimitAssumption /\ S!ServeAssumption

MCInit ==
  /\ part \in Parts
  /\ SchemaInit /\ (part # "schema" => file = Fresh)
  /\ IF part = "roomy" THEN Roomy!ListenerInit ELSE Tight!ListenerInit
  /\ S!Init /\ (part # "serve" => front = "json")

MCNext ==
  \/ part = "schema" /\ SchemaNext /\ UNCHANGED <<part, connVars, serveVars>>
  \/ part = "tight" /\ Tight!ListenerNext /\ UNCHANGED <<part, schemaVars, serveVars>>
  \/ part = "roomy" /\ Roomy!ListenerNext /\ UNCHANGED <<part, schemaVars, serveVars>>
  \/ part = "serve" /\ S!Next /\ UNCHANGED <<part, schemaVars, connVars>>

\* No fair step of an opener is enabled before it has begun to open.
MCSpec ==
  /\ MCInit /\ [][MCNext]_<<part, schemaVars, connVars, serveVars>>
  /\ \A o \in Opener : WF_schemaVars(Step(o))
  /\ part = "tight" => Tight!ListenerFairness
  /\ part = "serve" => S!Fairness

\* Connections and requests never leave with a permit, nor return one twice,
\* and watchers alone never keep a command out (LimitedTcpListener,
\* admit_request); a relay announces itself when it can be reached, writes one
\* JSON document, and exits with 0 only after a checkpoint
\* (serve_with_router_factory, run_relay_json_until).
ServersAreOrderly ==
  /\ part = "tight" => Tight!ListenerInvariant
  /\ part = "roomy" => Roomy!ListenerInvariant
  /\ part = "serve" => S!ServeInvariant

\* A started open returns, every request ends, clients are accepted while there
\* is a socket, errors of accept do not use up the permits, and after a signal
\* connections close and the process ends, whatever clients, handlers and the
\* worker do.
ServersMakeProgress ==
  /\ OpenReturns
  /\ part = "tight" => Tight!RequestEnds /\ Tight!BacklogIsServed /\ Tight!ShutdownDrains
  /\ S!ShutdownEnds /\ S!ListensAgain
=============================================================================
