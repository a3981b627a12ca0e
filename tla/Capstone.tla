------------------------------ MODULE Capstone ------------------------------
(***************************************************************************)
(* src/capstone.rs, CapstoneHarness: the in-memory host of the whole       *)
(* capstone-host world.  It serves workspace and log itself and delegates  *)
(* storage and events to the StorageEventsHost it embeds, each behind its  *)
(* own copy of the grant.                                                  *)
(***************************************************************************)
EXTENDS StorageEvents

CONSTANT MaxLogs   \* bound on the log lines of a run; the code has none

VARIABLES
  harnessGranted,  \* CapstoneHarness::granted, read by workspace; the embedded
                   \* store reads its own granted
  logs             \* logs: the number of lines captured

capstoneVars == <<storeVars, harnessGranted, logs>>

\* Two portfolios, whatever the plugin.
canned_portfolios == Portfolios

\* CapstoneHarness::new
CapstoneInit(g) ==
  /\ harnessGranted = g
  /\ StoreInit(g)
  /\ logs = 0

\* The grant of the harness is forgotten.
FaultyReadPortfolioNames ==
  /\ Returns(Ok(canned_portfolios))
  /\ UNCHANGED <<harnessGranted, logs>>

read_portfolio_names ==
  /\ IF harnessGranted THEN Returns(Ok(canned_portfolios)) ELSE Returns(Err("permission-denied"))
  /\ UNCHANGED <<harnessGranted, logs>>

\* The reads that the harness does not provide, granted or not.
OtherReads ==
  /\ Returns(Err("not-found"))
  /\ UNCHANGED <<harnessGranted, logs>>

Delegated ==
  /\ StorageCall
  /\ UNCHANGED <<harnessGranted, logs>>

\* log.write: no gate, no cap.
Write ==
  /\ logs < MaxLogs
  /\ logs' = logs + 1
  /\ Returns(Ok({}))
  /\ UNCHANGED harnessGranted

CapstoneStep == read_portfolio_names \/ OtherReads \/ Delegated \/ Write

-----------------------------------------------------------------------------
\* capstone.rs: the workspace read AND storage "share one chokepoint".  A plugin
\* that was not granted the capabilities leaves nothing in the store and gets no
\* data back, whichever of the calls it makes, in whatever order.
UngrantedSeesNothing ==
  ~harnessGranted => kv = NoKeys /\ (reply.ok => reply.data = {})
=============================================================================
