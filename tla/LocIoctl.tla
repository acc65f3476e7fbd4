------------------------------ MODULE LocIoctl ------------------------------
(***************************************************************************)
(* libloc_api/loc_eng_ioctl.cpp: a request to the modem over RPC and the   *)
(* wait for the report that answers it.  One record, guarded by            *)
(* cb_data_mutex, says which report is awaited; a thread that calls        *)
(* loc_eng_ioctl selects the report, sends the request, waits for a second *)
(* or two (the timeout in milliseconds is added to microseconds) and       *)
(* resets the record.                                                      *)
(*                                                                         *)
(* Several threads call loc_eng_ioctl.  The module has no next-state       *)
(* relation of its own: LocEng composes its operations.  A step holds      *)
(* cb_data_mutex from its first access to its last.                        *)
(*                                                                         *)
(* cb_is_waiting is written and never read by the code: it is left out.    *)
(* Of the payload the status is kept, TRUE for RPC_LOC_API_SUCCESS, which  *)
(* is 0: the memset of the setup writes it.  All calls use the one client  *)
(* handle of the library.  The condition variable of this wait is taken    *)
(* to return only when signalled or at the timeout.                        *)
(***************************************************************************)
EXTENDS Naturals

CONSTANTS Threads,  \* the threads that may call loc_eng_ioctl
          None

(* The requests the library waits for: the engine lock, the fix criteria,  *)
(* the address of the location server, the deletion of assistance data,    *)
(* the status of a data connection opened or closed, the user's answer to  *)
(* a notification.  (Time and orbit injections behave as FIX_CRITERIA.)    *)
IoctlTypes == {"ENGINE_LOCK", "FIX_CRITERIA", "SLP_ADDR", "DELETE_ASSIST",
               "OPEN_STATUS", "CLOSE_STATUS", "NI_RESPONSE"}

VARIABLES
  cb_is_selected, cb_has_arrived, ioctl_type, cb_payload,  \* ioctl_data
  call,  \* call[t]: where thread t is in loc_eng_ioctl
  owed   \* owed[y]: accepted requests of type y the modem has not reported on

ioctlVars == <<cb_is_selected, cb_has_arrived, ioctl_type, cb_payload, call, owed>>

Places == {"out", "send", "wait", "asleep", "woken", "reset"}

Call == [at : Places, type : IoctlTypes \cup {None}, ok : BOOLEAN]

(* A thread outside the function: its last request and result are gone.    *)
NoCall == [at |-> "out", type |-> None, ok |-> FALSE]

IoctlInit ==
  /\ cb_is_selected = FALSE /\ cb_has_arrived = FALSE
  /\ ioctl_type = None /\ cb_payload = TRUE
  /\ call = [t \in Threads |-> NoCall]
  /\ owed = [y \in IoctlTypes |-> 0]

IoctlTypeOK ==
  /\ cb_is_selected \in BOOLEAN /\ cb_has_arrived \in BOOLEAN
  /\ ioctl_type \in IoctlTypes \cup {None} /\ cb_payload \in BOOLEAN
  /\ call \in [Threads -> Call]
  /\ owed \in [IoctlTypes -> Nat]

-----------------------------------------------------------------------------
GoTo(t, place) == call' = [call EXCEPT ![t].at = place]

(* The function is about to return ok: only the reset is left.             *)
Finish(t, ok) == call' = [call EXCEPT ![t].at = "reset", ![t].ok = ok]

(* A variant in which the setup keeps an earlier arrival.                   *)
SetupKeepsArrival(t, type) ==
  /\ call[t].at = "out"
  /\ cb_is_selected' = TRUE
  /\ ioctl_type' = type
  /\ cb_payload' = TRUE
  /\ call' = [call EXCEPT ![t] = [at |-> "send", type |-> type, ok |-> FALSE]]
  /\ UNCHANGED <<cb_has_arrived, owed>>

(* loc_eng_ioctl_setup_cb.  When another call is in progress this one      *)
(* fails; it goes to the reset all the same.                               *)
Setup(t, type) ==
  /\ call[t].at = "out"
  /\ \/ /\ cb_is_selected
        /\ call' = [call EXCEPT ![t] = [at |-> "reset", type |-> type, ok |-> FALSE]]
        /\ UNCHANGED <<cb_is_selected, cb_has_arrived, ioctl_type, cb_payload>>
     \/ /\ ~cb_is_selected
        /\ cb_is_selected' = TRUE
        /\ cb_has_arrived' = FALSE
        /\ ioctl_type' = type
        /\ cb_payload' = TRUE
        /\ call' = [call EXCEPT ![t] = [at |-> "send", type |-> type, ok |-> FALSE]]
  /\ UNCHANGED owed

(* loc_ioctl, the RPC: the modem accepts the request or refuses it.  The   *)
(* report may arrive before the call returns.                              *)
Rpc(t) ==
  /\ call[t].at = "send"
  /\ \/ /\ owed' = [owed EXCEPT ![call[t].type] = @ + 1]
        /\ GoTo(t, "wait")
     \/ /\ Finish(t, FALSE)
        /\ UNCHANGED owed
  /\ UNCHANGED <<cb_is_selected, cb_has_arrived, ioctl_type, cb_payload>>

(* loc_eng_ioctl_wait_cb up to the wait: the selection may be gone, and    *)
(* the report may be there already.                                        *)
WaitCb(t) ==
  /\ call[t].at = "wait"
  /\ \/ ~cb_is_selected /\ Finish(t, FALSE)
     \/ cb_is_selected /\ cb_has_arrived /\ Finish(t, cb_payload)
     \/ cb_is_selected /\ ~cb_has_arrived /\ GoTo(t, "asleep")
  /\ UNCHANGED <<cb_is_selected, cb_has_arrived, ioctl_type, cb_payload, owed>>

(* pthread_cond_timedwait returns, at the timeout or signalled.  Nothing   *)
(* is tested again: a signalled thread takes whatever cb_payload holds.    *)
Timeout(t) ==
  /\ call[t].at = "asleep"
  /\ Finish(t, FALSE)
  /\ UNCHANGED <<cb_is_selected, cb_has_arrived, ioctl_type, cb_payload, owed>>

TakePayload(t) ==
  /\ call[t].at = "woken"
  /\ Finish(t, cb_payload)
  /\ UNCHANGED <<cb_is_selected, cb_has_arrived, ioctl_type, cb_payload, owed>>

(* The end of loc_eng_ioctl: whoever gets here resets the record.          *)
Reset(t) ==
  /\ call[t].at = "reset"
  /\ cb_is_selected' = FALSE
  /\ cb_has_arrived' = FALSE
  /\ call' = [call EXCEPT ![t] = NoCall]
  /\ UNCHANGED <<ioctl_type, cb_payload, owed>>

IoctlStep(t) ==
  Rpc(t) \/ WaitCb(t) \/ Timeout(t) \/ TakePayload(t) \/ Reset(t)

-----------------------------------------------------------------------------
(* loc_eng_ioctl_process_cb under the mutex: a report of the type that was *)
(* selected last is stored, whether or not anybody waits for it.           *)
Matches(type) == type = ioctl_type

StoreReport(type, ok) ==
  /\ IF Matches(type)
     THEN cb_payload' = ok /\ cb_has_arrived' = TRUE
     ELSE UNCHANGED <<cb_payload, cb_has_arrived>>
  /\ UNCHANGED <<cb_is_selected, ioctl_type, call, owed>>

(* The signal follows the unlock: it wakes one of the threads asleep by    *)
(* then, whichever it is, or none.                                         *)
Asleep == {t \in Threads : call[t].at = "asleep"}

SignalWaiter ==
  /\ IF Asleep = {} THEN UNCHANGED call ELSE \E t \in Asleep : GoTo(t, "woken")
  /\ UNCHANGED <<cb_is_selected, cb_has_arrived, ioctl_type, cb_payload, owed>>

=============================================================================
