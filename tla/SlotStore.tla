----------------------------- MODULE SlotStore -----------------------------
(***************************************************************************)
(* The A/B slots of a device (edge-agent slots.py): two directories and a  *)
(* pointer file.  A new bundle is received into the slot the pointer does  *)
(* not name; activate verifies a slot and then replaces the pointer;       *)
(* rollback activates the other slot.  The bundle arrives file by file     *)
(* (write_bundle), and power may go between any two writes.                *)
(*                                                                         *)
(* Receiving is the OTA agent's process, install and rollback are the      *)
(* command line's.  Nothing locks them against each other, so a bundle may *)
(* arrive in the slot that is being verified, or in the one the pointer    *)
(* has just moved to: a crossing.  `crossed` remembers them, so that the   *)
(* properties can say that nothing else can break the device.              *)
(***************************************************************************)
EXTENDS Integers

CONSTANTS
  Version,    \* the versions that are received
  MaxMoves    \* bound: how often the pointer is moved

ASSUME SlotAssumption ==
  /\ Version \cap {"none", "partial"} = {}
  /\ MaxMoves \in Nat

Slots == {"a", "b"}

VARIABLES
  disk,       \* what is in each slot: the model and the manifest
  pointer,    \* the slot `current` names
  receiving,  \* the bundle on its way: its slot, its version, the next file
  moving,     \* the activation under way: its slot, what it has read, and
              \*   whether a bundle was on its way into that slot meanwhile
  crossed,    \* history: slots pointed to by an activation that was crossed
  moves       \* history: how often the pointer was moved

slotVars == <<disk, pointer, receiving, moving, crossed, moves>>

Nothing == [slot |-> "none", version |-> "none", step |-> "none"]
Still == [slot |-> "none", declared |-> "none", step |-> "none", crossed |-> FALSE]

SlotInit ==
  /\ disk = [s \in Slots |-> [model |-> "none", manifest |-> "none"]]
  /\ pointer = "none"
  /\ receiving = Nothing
  /\ moving = Still
  /\ crossed = {}
  /\ moves = 0

(* load_bundle: the manifest's checksum is the one of the model.           *)
Whole(s) ==
  disk[s].manifest \in Version /\ disk[s].model = disk[s].manifest

Standby == IF pointer = "a" THEN "b" ELSE "a"

HasPrevious == Whole(Standby)

-----------------------------------------------------------------------------
(* Receiving a bundle                                                      *)

Receive(slot) ==
  /\ receiving = Nothing
  /\ \E version \in Version :
       receiving' = [slot |-> slot, version |-> version, step |-> "first"]
  /\ moving' = IF moving.slot = slot THEN [moving EXCEPT !.crossed = TRUE] ELSE moving
  /\ UNCHANGED <<disk, pointer, crossed, moves>>

(* Mutant: a bundle is received wherever the sender says. *)
StageAnywhere == \E slot \in Slots : Receive(slot)

(* stage_slot: the place is named, nothing is written yet.                 *)
StageSlot == Receive(Standby)

(* The first byte of the model: what the slot held is gone.                *)
BeginModel ==
  /\ receiving.step = "first"
  /\ disk' = [disk EXCEPT ![receiving.slot].model = "partial"]
  /\ receiving' = [receiving EXCEPT !.step = "model"]
  /\ UNCHANGED <<pointer, moving, crossed, moves>>

WriteModel ==
  /\ receiving.step = "model"
  /\ disk' = [disk EXCEPT ![receiving.slot].model = receiving.version]
  /\ receiving' = [receiving EXCEPT !.step = "manifest"]
  /\ UNCHANGED <<pointer, moving, crossed, moves>>

WriteManifest ==
  /\ receiving.step = "manifest"
  /\ disk' = [disk EXCEPT ![receiving.slot].manifest = receiving.version]
  /\ receiving' = Nothing
  /\ UNCHANGED <<pointer, moving, crossed, moves>>

(* The line breaks or the power goes: what is written stays, and the       *)
(* manifest may be half written.                                           *)
BreakOff ==
  /\ receiving # Nothing
  /\ \/ UNCHANGED disk
     \/ /\ receiving.step = "manifest"
        /\ disk' = [disk EXCEPT ![receiving.slot].manifest = "partial"]
  /\ receiving' = Nothing
  /\ UNCHANGED <<pointer, moving, crossed, moves>>

-----------------------------------------------------------------------------
(* Moving the pointer                                                      *)

(* load_bundle reads the manifest first; one that is missing or cut short  *)
(* is rejected.                                                            *)
ReadManifest(slot) ==
  /\ moving = Still
  /\ moves < MaxMoves
  /\ disk[slot].manifest \in Version
  /\ moving' = [slot |-> slot, declared |-> disk[slot].manifest, step |-> "model",
                crossed |-> receiving.slot = slot]
  /\ UNCHANGED <<disk, pointer, receiving, crossed, moves>>

(* install names a slot; rollback takes the other one than the pointer.    *)
Install == \E slot \in Slots : ReadManifest(slot)

Rollback == ReadManifest(Standby)

(* Mutant: what is activated is not looked at. *)
VerifyUnread ==
  /\ moving.step = "model"
  /\ moving' = [moving EXCEPT !.step = "pointer"]
  /\ UNCHANGED <<disk, pointer, receiving, crossed, moves>>

(* Then the model, against the checksum the manifest declared.             *)
Verify ==
  /\ moving.step = "model"
  /\ disk[moving.slot].model = moving.declared
  /\ moving' = [moving EXCEPT !.step = "pointer"]
  /\ UNCHANGED <<disk, pointer, receiving, crossed, moves>>

Moved ==
  /\ moving' = Still
  /\ crossed' = IF moving.crossed THEN crossed \cup {moving.slot}
                                  ELSE crossed \ {moving.slot}
  /\ moves' = moves + 1
  /\ UNCHANGED <<disk, receiving>>

(* Mutant: the pointer is written in place, and the power goes. *)
SwitchInPlace ==
  /\ moving.step = "pointer"
  /\ pointer' \in {moving.slot, "none"}
  /\ Moved

(* os.replace: the pointer is the old one or the new one.                  *)
Switch ==
  /\ moving.step = "pointer"
  /\ pointer' = moving.slot
  /\ Moved

(* The bundle is rejected, or the power goes before the pointer is         *)
(* replaced.                                                               *)
GiveUpSwitch ==
  /\ moving # Still
  /\ moving' = Still
  /\ UNCHANGED <<disk, pointer, receiving, crossed, moves>>

SlotNext ==
  \/ StageSlot \/ BeginModel \/ WriteModel \/ WriteManifest \/ BreakOff
  \/ Install \/ Rollback \/ Verify \/ Switch \/ GiveUpSwitch

SlotSpec == SlotInit /\ [][SlotNext]_slotVars

-----------------------------------------------------------------------------
Content == Version \cup {"none", "partial"}

(* Types; and what activate has verified is still whole when the pointer   *)
(* is about to move to it, unless a bundle was on its way into that slot.  *)
SlotTypeOK ==
  /\ disk \in [Slots -> [model : Content, manifest : Content]]
  /\ pointer \in Slots \cup {"none"}
  /\ receiving \in {Nothing} \cup
       [slot : Slots, version : Version, step : {"first", "model", "manifest"}]
  /\ moving \in {Still} \cup
       [slot : Slots, declared : Version, step : {"model", "pointer"}, crossed : BOOLEAN]
  /\ (moving.step = "pointer" /\ ~ moving.crossed) => Whole(moving.slot)
  /\ crossed \subseteq Slots
  /\ moves \in Nat

(* Once a bundle has been activated the device can start again, whatever   *)
(* write the power went at: the pointer names a slot and the bundle in it  *)
(* is whole.  The only thing that can break it is a bundle that was on its *)
(* way into that slot while the slot was activated (activate, stage_slot,  *)
(* which take no lock).                                                    *)
StartsForEver ==
  moves > 0 => /\ pointer # "none"
               /\ Whole(pointer) \/ pointer \in crossed

(* Moving the pointer leaves a way back: the bundle that ran until then is *)
(* whole in the other slot, unless it had come there by a crossing         *)
(* (install, rollback).                                                    *)
SwitchLeavesWayBack ==
  [][(pointer' # pointer /\ pointer # "none")
       => (HasPrevious' \/ pointer \in crossed)]_slotVars

(* The inductive invariant: what is being received goes where the pointer  *)
(* does not point and nothing is being activated, but for a crossing.      *)
SlotIInv ==
  /\ SlotTypeOK
  /\ StartsForEver
  /\ pointer # "none" => moves > 0
  /\ receiving.slot = pointer => (receiving = Nothing \/ pointer \in crossed)
  /\ (receiving # Nothing /\ receiving.slot = moving.slot) => moving.crossed
  /\ (moving.step = "model" /\ ~ moving.crossed)
       => disk[moving.slot].manifest = moving.declared
=============================================================================
