--------------------------- MODULE DeviceManager ---------------------------
(***************************************************************************)
(* DrexDeviceManager (drex_app.py): a cache of the discovered drives that  *)
(* a background thread fills.  What is discovered is abstracted to whether *)
(* the cached list is fresh (non-empty and younger than the time to live). *)
(***************************************************************************)
EXTENDS EventBus, Naturals

VARIABLES
  fresh,         \* is_fresh
  discovering,   \* _is_discovering: a thread is querying the host
  callbacks      \* threads that have stored their drives and not yet called back

deviceVars == <<fresh, discovering, callbacks>>

DeviceInit == fresh = FALSE /\ discovering = FALSE /\ callbacks = 0

\* Mutant: a fresh cache is not reported to the caller.
FreshUnreported(force) ==
  IF ~force /\ fresh
  THEN UNCHANGED <<deviceVars, events>>
  ELSE /\ discovering' = TRUE
       /\ UNCHANGED <<fresh, callbacks, events>>

\* start_async_discovery: answer from the cache, rely on the discovery under
\* way, or start one.
StartAsyncDiscovery(force) ==
  IF ~force /\ fresh
  THEN Put(<<Devices>>) /\ UNCHANGED deviceVars
  ELSE /\ discovering' = TRUE
       /\ UNCHANGED <<fresh, callbacks, events>>

\* _worker stores what it found; no drives, or a query that failed, leave the
\* cache stale.
Discovered ==
  /\ discovering
  /\ discovering' = FALSE
  /\ fresh' \in BOOLEAN
  /\ callbacks' = callbacks + 1
  /\ UNCHANGED events

\* on_complete, outside the lock: refresh_devices' _on_done.
CallBack ==
  /\ callbacks > 0
  /\ callbacks' = callbacks - 1
  /\ Put(<<Devices>>)
  /\ UNCHANGED <<fresh, discovering>>

\* The cached drives grow older than the time to live.
Expire ==
  /\ fresh
  /\ fresh' = FALSE
  /\ UNCHANGED <<discovering, callbacks, events>>
=============================================================================
