------------------------------- MODULE MCMenu -------------------------------
(* Instances of Menu for TLC. *)
EXTENDS Menu

FourCores == CoreTypes \ {"minimig2"}
OneList == <<[kind |-> "O", ext |-> ""], [kind |-> "F", ext |-> "TAP"],
             [kind |-> "T", ext |-> ""]>>
TwoLists == <<[kind |-> "F", ext |-> "TAP"], [kind |-> "F", ext |-> "SNA"]>>
Both == {0, 1}

(* As many drives as LoadConfiguration() accepts, one more than there are. *)
FiveDrives == [s \in Slots |-> [Defaults EXCEPT !.drives = 4]]
=============================================================================
