------------------------------- MODULE LocNi -------------------------------
(***************************************************************************)
(* libloc_api/loc_eng_ni.cpp: a notification of the network ("may this     *)
(* requestor locate you?") is shown to the user, whose answer goes back to *)
(* the modem; a thread of its own answers for a user who does not.         *)
(*                                                                         *)
(* Three threads meet in loc_eng_ni_data: the deferred thread of LocEng,   *)
(* which hands in the request; the framework's thread that carries the     *)
(* user's answer; the NI thread, which counts seconds.  loc_ni_lock guards *)
(* the record, though two tests read it without; the NI thread keeps the   *)
(* lock across a request to the modem.  Requests are told apart by         *)
(* current_notif_id, a random number in the code, taken here to be fresh;  *)
(* 0 stands for -1.                                                        *)
(***************************************************************************)
EXTENDS LocIoctl

CONSTANTS NiThread,     \* loc_ni_thread_proc
          ResponseTime  \* seconds until the library answers by itself

ASSUME NiAssumption ==
  /\ NiThread \in Threads /\ None \notin Threads
  /\ ResponseTime \in Nat \ {0}

VARIABLES
  notif_in_progress, response_time_left, current_notif_id,  \* loc_eng_ni_data
  loc_ni_lock,  \* the thread that holds the mutex across steps, or None
  notifs        \* how many ids have been given out

niVars == <<notif_in_progress, response_time_left, current_notif_id, loc_ni_lock, notifs>>

(* loc_eng_ni_init, called before the engine reports anything.             *)
NiInit ==
  /\ notif_in_progress = FALSE
  /\ response_time_left = 0
  /\ current_notif_id = 0
  /\ loc_ni_lock = None
  /\ notifs = 0

NiTypeOK ==
  /\ notif_in_progress \in BOOLEAN
  /\ response_time_left \in 0..ResponseTime
  /\ notifs \in Nat
  /\ current_notif_id \in 0..notifs
  /\ loc_ni_lock \in {NiThread, None}

-----------------------------------------------------------------------------
(* A variant that leaves the time to the framework.                        *)
SaveWithoutTime ==
  /\ loc_ni_lock = None
  /\ notif_in_progress' = TRUE
  /\ notifs' = notifs + 1
  /\ current_notif_id' = notifs + 1
  /\ UNCHANGED <<response_time_left, loc_ni_lock>>

(* loc_ni_request_handler from its lock to its unlock.  The test of        *)
(* notif_in_progress was made before the lock: see NiRequest in LocEng.    *)
SaveRequest ==
  /\ loc_ni_lock = None
  /\ notif_in_progress' = TRUE
  /\ response_time_left' = ResponseTime
  /\ notifs' = notifs + 1
  /\ current_notif_id' = notifs + 1
  /\ UNCHANGED loc_ni_lock

(* A variant that counts to zero without an answer.                         *)
TickToZero ==
  /\ loc_ni_lock = None
  /\ notif_in_progress /\ response_time_left > 0
  /\ response_time_left' = response_time_left - 1
  /\ UNCHANGED <<notif_in_progress, current_notif_id, loc_ni_lock, notifs, ioctlVars>>

(* loc_ni_thread_proc, once a second: a second passes.                     *)
Tick ==
  /\ loc_ni_lock = None
  /\ notif_in_progress /\ response_time_left > 1
  /\ response_time_left' = response_time_left - 1
  /\ UNCHANGED <<notif_in_progress, current_notif_id, loc_ni_lock, notifs, ioctlVars>>

(* A variant that ends the notification before it answers.                 *)
ExpireThenAnswer ==
  /\ loc_ni_lock = None
  /\ notif_in_progress /\ response_time_left = 1
  /\ response_time_left' = 0
  /\ notif_in_progress' = FALSE
  /\ loc_ni_lock' = NiThread
  /\ Setup(NiThread, "NI_RESPONSE")
  /\ UNCHANGED <<current_notif_id, notifs>>

(* The last second passes: no response is sent, with the lock held.        *)
Expire ==
  /\ loc_ni_lock = None
  /\ notif_in_progress /\ response_time_left = 1
  /\ response_time_left' = 0
  /\ loc_ni_lock' = NiThread
  /\ Setup(NiThread, "NI_RESPONSE")
  /\ UNCHANGED <<notif_in_progress, current_notif_id, notifs>>

(* The request has returned: the notification is over.                     *)
Expired ==
  /\ loc_ni_lock = NiThread
  /\ call[NiThread].at = "out"
  /\ notif_in_progress' = FALSE
  /\ loc_ni_lock' = None
  /\ UNCHANGED <<response_time_left, current_notif_id, notifs, ioctlVars>>

NiThreadStep == Tick \/ Expire \/ Expired

(* loc_eng_ni_respond, its test: no lock is held.                          *)
AnswerAccepted(id) == id = current_notif_id /\ notif_in_progress

(* loc_ni_process_user_response after the request has returned.            *)
ClearNotif ==
  /\ loc_ni_lock = None
  /\ notif_in_progress' = FALSE
  /\ response_time_left' = 0
  /\ current_notif_id' = 0
  /\ UNCHANGED <<loc_ni_lock, notifs>>

-----------------------------------------------------------------------------
(* A notification in progress has time left, unless the NI thread is just  *)
(* answering for it: with none left that thread would pass it over for     *)
(* ever and every later request would be ignored as overlapping.           *)
NiTimed == notif_in_progress /\ loc_ni_lock = None => response_time_left > 0
=============================================================================
