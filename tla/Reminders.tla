------------------------------ MODULE Reminders ------------------------------
(***************************************************************************)
(* One reminder of the iOS app, under its stable identifier: the request   *)
(* pending in the notification center, the metadata kept in the user       *)
(* defaults, and what the coordinator shows.  LocalReminderCoordinator     *)
(* with LocalReminderScheduler is the coordinator "local", and             *)
(* PredictionReminderCoordinator with PredictionReminderScheduler is       *)
(* "prediction".  The main actor runs the code between two awaits as one   *)
(* step; the center answers on an executor of its own.                     *)
(***************************************************************************)
EXTENDS Naturals

CONSTANTS Subjects,   \* what a reminder is for: a window, a day's prediction
          MaxTime     \* bound on the clock

VARIABLES
  coordinator, \* "local" or "prediction"; never changes
  now,         \* the clock
  allowed,     \* the notification permission
  pending,     \* the request in the notification center
  stored,      \* the metadata in the user defaults
  shown,       \* the reminder the coordinator publishes
  pressed,     \* the schedule and the cancel the reader asked for, while they run
  refresh,     \* the reconciliation, while it removes a reminder
  overlapped   \* whether a removal ever ran beside a button's call, or the app
               \* ended in the middle of either

vars == <<coordinator, now, allowed, pending, stored, shown, pressed, refresh,
          overlapped>>

Nothing == [subject |-> "nothing", fire |-> 0]
Plans == [subject : Subjects, fire : 1..MaxTime]
Resting == [pc |-> "idle", plan |-> Nothing]
Call(pc, plan) == [pc |-> pc, plan |-> plan]

\* isWorking, and workingKinds for the one kind a behaviour is about.
\* Slip: a second button is not held back while a call runs.
NeverWorking == FALSE
Working == \E b \in {"schedule", "cancel"} : pressed[b] # Resting

At(b, pc) == pressed[b].pc = pc
Move(b, pc) == pressed' = [pressed EXCEPT ![b].pc = pc]
EndCall(b) == pressed' = [pressed EXCEPT ![b] = Resting]
Removing == refresh.pc \in {"remove", "erase"}

Overlap(busyBefore) == overlapped' = (overlapped \/ busyBefore)

-----------------------------------------------------------------------------
(* schedule: validate, ask for permission, add to the center, keep metadata. *)

Schedule(p) ==
  /\ ~Working
  /\ p.fire > now
  /\ pressed' = [pressed EXCEPT !["schedule"] = Call("permission", p)]
  /\ Overlap(Removing)
  /\ UNCHANGED <<coordinator, now, allowed, pending, stored, shown, refresh>>

Permission ==
  /\ At("schedule", "permission")
  /\ \/ allowed = "yes" /\ Move("schedule", "check") /\ UNCHANGED allowed
     \/ allowed = "no" /\ EndCall("schedule") /\ UNCHANGED allowed
     \/ allowed = "unasked" /\ allowed' = "yes" /\ Move("schedule", "check")
     \/ allowed = "unasked" /\ allowed' = "no" /\ EndCall("schedule")
  /\ UNCHANGED <<coordinator, now, pending, stored, shown, refresh, overlapped>>

\* The permission sheet may have stayed open until the window started.
Check ==
  /\ At("schedule", "check")
  /\ IF pressed["schedule"].plan.fire > now
     THEN Move("schedule", "add") ELSE EndCall("schedule")
  /\ UNCHANGED <<coordinator, now, allowed, pending, stored, shown, refresh, overlapped>>

\* The center replaces a pending request of the same identifier, or refuses.
Add ==
  /\ At("schedule", "add")
  /\ \/ pending' = pressed["schedule"].plan /\ Move("schedule", "save")
     \/ EndCall("schedule") /\ UNCHANGED pending
  /\ UNCHANGED <<coordinator, now, allowed, stored, shown, refresh, overlapped>>

\* Encoding the metadata for the user defaults does not fail.
Save ==
  /\ At("schedule", "save")
  /\ stored' = pressed["schedule"].plan
  /\ shown' = pressed["schedule"].plan
  /\ EndCall("schedule")
  /\ UNCHANGED <<coordinator, now, allowed, pending, refresh, overlapped>>

-----------------------------------------------------------------------------
(* cancel: remove from the center, then erase the metadata. *)

Cancel ==
  /\ ~Working
  /\ pressed' = [pressed EXCEPT !["cancel"] = Call("remove", Nothing)]
  /\ Overlap(Removing)
  /\ UNCHANGED <<coordinator, now, allowed, pending, stored, shown, refresh>>

RemovePending ==
  /\ At("cancel", "remove")
  /\ pending' = Nothing /\ Move("cancel", "erase")
  /\ UNCHANGED <<coordinator, now, allowed, stored, shown, refresh, overlapped>>

Erase ==
  /\ At("cancel", "erase")
  /\ stored' = Nothing /\ shown' = Nothing
  /\ EndCall("cancel")
  /\ UNCHANGED <<coordinator, now, allowed, pending, refresh, overlapped>>

-----------------------------------------------------------------------------
(* refresh: shows the stored reminder, or removes one that is past, or, for a  *)
(* prediction, one that was for another prediction. LocalReminderCoordinator   *)
(* leaves it while a button's call runs; PredictionReminderCoordinator does not. *)

Refresh(subject) ==
  /\ refresh = Resting
  /\ coordinator = "local" => ~Working
  /\ LET outdated == \/ stored.fire <= now
                     \/ coordinator = "prediction" /\ stored.subject # subject
     IN  IF stored = Nothing
         THEN shown' = Nothing /\ UNCHANGED <<refresh, overlapped>>
         ELSE IF outdated
         THEN refresh' = Call("remove", Nothing) /\ Overlap(Working) /\ UNCHANGED shown
         ELSE shown' = stored /\ UNCHANGED <<refresh, overlapped>>
  /\ UNCHANGED <<coordinator, now, allowed, pending, stored, pressed>>

RefreshRemoves ==
  /\ refresh.pc = "remove"
  /\ pending' = Nothing /\ refresh' = Call("erase", Nothing)
  /\ UNCHANGED <<coordinator, now, allowed, stored, shown, pressed, overlapped>>

RefreshErases ==
  /\ refresh.pc = "erase"
  /\ stored' = Nothing /\ shown' = Nothing /\ refresh' = Resting
  /\ UNCHANGED <<coordinator, now, allowed, pending, pressed, overlapped>>

-----------------------------------------------------------------------------
(* The clock, the notification center and the operating system. *)

Tick == /\ now < MaxTime /\ now' = now + 1
        /\ UNCHANGED <<coordinator, allowed, pending, stored, shown, pressed, refresh,
                       overlapped>>

\* A calendar trigger that does not repeat fires once; one added for a moment that is
\* past never does.
Deliver ==
  /\ pending # Nothing /\ pending.fire = now
  /\ pending' = Nothing
  /\ UNCHANGED <<coordinator, now, allowed, stored, shown, pressed, refresh, overlapped>>

\* The app ends; LocalReminderCoordinator reads the stored metadata when it is built.
Terminate ==
  /\ Overlap(Working \/ Removing)
  /\ pressed' = [b \in {"schedule", "cancel"} |-> Resting] /\ refresh' = Resting
  /\ shown' = (IF coordinator = "local" THEN stored ELSE Nothing)
  /\ UNCHANGED <<coordinator, now, allowed, pending, stored>>

Init ==
  /\ coordinator \in {"local", "prediction"}
  /\ now = 0 /\ allowed = "unasked"
  /\ pending = Nothing /\ stored = Nothing /\ shown = Nothing
  /\ pressed = [b \in {"schedule", "cancel"} |-> Resting] /\ refresh = Resting
  /\ overlapped = FALSE

Next ==
  \/ \E p \in Plans : Schedule(p)
  \/ Permission \/ Check \/ Add \/ Save
  \/ Cancel \/ RemovePending \/ Erase
  \/ \E s \in Subjects : Refresh(s)
  \/ RefreshRemoves \/ RefreshErases
  \/ Tick \/ Deliver \/ Terminate

Spec == Init /\ [][Next]_vars

-----------------------------------------------------------------------------

\* When nothing runs, the app and the notification center agree: a request that will
\* be delivered is the stored one, a stored reminder still ahead will be delivered, and
\* what is shown is stored. A removal by refresh that ran beside a schedule, and an app
\* ended between the two writes, are left out: the code does not guard against them.
RemindersAgree ==
  ~overlapped /\ ~Working /\ ~Removing =>
    /\ pending.fire > now => pending = stored
    /\ stored.fire > now => pending = stored
    /\ shown \in {Nothing, stored}
=============================================================================
