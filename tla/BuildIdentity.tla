--------------------------- MODULE BuildIdentity ---------------------------
(***************************************************************************)
(* How tsschecker picks the build identity of a manifest a request is      *)
(* built from (getBuildidentityWithBoardconfig and getBuildidentity).      *)
(*                                                                         *)
(* A manifest is the sequence of its build identities; a buffer that is no *)
(* usable manifest is <<>>. An identity is a record:                       *)
(*   info         it has an Info dictionary                                *)
(*   behavior     its RestoreBehavior, "absent" when there is none         *)
(*   class        its DeviceClass, "absent" when there is none             *)
(*   hasManifest  it has a Manifest dictionary                             *)
(*   sep          its Manifest has a SEP entry                             *)
(*   virt         VirtualMachineMinHostOS: "absent", "string" or "other"   *)
(***************************************************************************)
EXTENDS Integers, Sequences, FiniteSetsExt

InstallTypes == {"Default", "Update", "Erase"}

Identities ==
  [info : BOOLEAN, behavior : STRING, class : STRING, hasManifest : BOOLEAN,
   sep : BOOLEAN, virt : {"absent", "string", "other"}]

NoIdentity == [class |-> "none"]

(* The bit field isUpdateInstall is the lowest bit of installType: only    *)
(* kInstallTypeUpdate = 1 sets it.                                         *)
IsUpdateInstall(type) == type = "Update"

(* A behavior counts as Erase when it is a prefix of "Erase", every other  *)
(* one as Update.                                                          *)
IsErase(behavior) == behavior \in {"", "E", "Er", "Era", "Eras", "Erase"}

(* When DeviceClass is missing the string compared with the board is still *)
(* the RestoreBehavior read before it.                                     *)
ComparedClass(id) == IF id.class = "absent" THEN id.behavior ELSE id.class

Qualifies(id, board, type) ==
  /\ id.info
  /\ id.behavior # "absent"
  /\ IsErase(id.behavior) # IsUpdateInstall(type)
  /\ ComparedClass(id) = board

(* The first identity for the board and the install type. board is "NULL"  *)
(* when it was not given and the model's is not unique.                    *)
SelectIdentity(manifest, board, type) ==
  LET matching == {i \in DOMAIN manifest : Qualifies(manifest[i], board, type)}
  IN IF board = "NULL" \/ matching = {} THEN NoIdentity ELSE manifest[Min(matching)]

(* SEP as the identity's own VirtualMachineMinHostOS overrides it.         *)
SepUnlessVirtual(id, sep) == IF id.virt = "absent" THEN sep ELSE id.virt = "string"
=============================================================================
