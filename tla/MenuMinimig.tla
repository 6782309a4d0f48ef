---------------------------- MODULE MenuMinimig ----------------------------
(***************************************************************************)
(* The pages of the Minimig in HandleUI(): floppies, hard disks, the       *)
(* configuration on the card and the settings.  Settings that the core is  *)
(* told at once (memory, chipset, filters, floppy speed) are left out:     *)
(* choosing one only draws the page again.                                 *)
(***************************************************************************)
EXTENDS MenuBase

minimig_v1 == core = "minimig1"
IsMinimig == core \in {"minimig1", "minimig2"}

(* A configuration on the card may have one drive more than there are.     *)
Config == [drives : 0 .. 4, ide : BOOLEAN, hardfile : [Units -> Hardfile]]

-----------------------------------------------------------------------------
(* Configurations.                                                         *)

(* The file of a hardfile must exist, the card always does. *)
Present(h) == h.kind # 0 /\ (h.kind \in {HDF_FILE, HDF_SYNTHRDB} => h.name \in Names)

(* OpenHardfile() *)
Opened(h) == [h EXCEPT !.present = Present(h)]
OpenedAs(h) == <<h.kind, h.name>>

Defaults ==
    [drives |-> 1, ide |-> FALSE,
     hardfile |-> [i \in Units |-> [kind |-> i + 1, name |-> "HARDFILE",
                                    present |-> FALSE]]]

(* What is read from a slot: the defaults, when there is no file, or when   *)
(* it cannot be read or was not written to the end.                         *)
ReadFrom(slot) ==
    {Defaults} \cup {saved[s] : s \in {r \in Slots : r = slot /\ saved[r] # NoConfig}}

(* ConfigFloppy() has two bits for the number of drives. *)
DrivesTold(c) == c.drives % 4

(* LoadConfiguration() and ApplyConfiguration(): a new kickstart resets the *)
(* machine before it is told its number of drives.                          *)
LoadConfiguration(slot) ==
    \E c \in ReadFrom(slot) :
        /\ config' = [c EXCEPT !.hardfile = [i \in Units |-> Opened(c.hardfile[i])]]
        /\ hdf' = [i \in Units |-> OpenedAs(c.hardfile[i])]
        /\ drives' \in {DrivesTold(c), 1}
        /\ lost' = FALSE

-----------------------------------------------------------------------------
(* The main pages.                                                         *)

(* The drives of the Amiga; the line behind the last one of its            *)
(* configuration is a help text.                                           *)
MENU_MAIN1(u) ==
    /\ u.state = "MAIN1"
    /\ Draw(u, "MAIN1", "MAIN2", {4, 5, 6} \cup (0 .. drives \ {config.drives + 1}))
    /\ OnlyMenu

(* KP + and KP -: the drives the Amiga has after its next reset. *)
DrivesAfter(c) == IF c = "plus" THEN config.drives + 1 ELSE config.drives - 1

\* Mutant: only the upper limit is tested.
DrivesAllowedBelow(c) == DrivesAfter(c) <= 3

DrivesAllowed(c) == DrivesAfter(c) \in 0 .. 3

ChangeDrives(u, c) ==
    /\ c \in {"plus", "minus"} /\ DrivesAllowed(c)
    /\ config' = [config EXCEPT !.drives = DrivesAfter(c)]
    /\ GoTo(u, "MAIN1") /\ Effect
    /\ UNCHANGED <<osd, fs, t_hardfile, saved, hdf, drives, disks, st, lost>>

Eject(u, machine, ds, page) ==
    /\ disks' = [disks EXCEPT ![machine] = @ \ ds]
    /\ GoTo(u, page) /\ Effect
    /\ UNCHANGED <<osd, fs, config, t_hardfile, saved, hdf, drives, st, lost>>

Insert(u, machine, d, page, row) ==
    /\ disks' = [disks EXCEPT ![machine] = @ \cup {d}]
    /\ Enter(u, page, row) /\ Charged
    /\ UNCHANGED <<osd, fs, config, t_hardfile, saved, hdf, drives, st, lost>>

(* The page of the hard disks works on the configuration itself. *)
EnterHardfiles(u) ==
    /\ t_hardfile' = config.hardfile
    /\ Enter(u, "SETTINGS_HARDFILE1", 0)
    /\ UNCHANGED <<core, mmc, osd, fs, config, saved, hdf, drives, disks, st,
                   effects, lost>>

MENU_MAIN2(u, c) ==
    /\ u.state = "MAIN2"
    /\ \/ /\ \/ c = "menu" /\ GoTo(u, "NONE1")
             \/ c = "select" /\ u.sub = 4 /\ GoTo(u, "MAIN1")
             \/ c = "select" /\ u.sub = 6 /\ GoTo(u, "NONE1")
             \/ c = "right" /\ Enter(u, "MAIN2_1", 0)
             \/ Otherwise(u, c, {"menu", "select", "right", "back"})
          /\ OnlyMenu
       \/ ChangeDrives(u, c)
       \/ c = "select" /\ u.sub = 5 /\ EnterHardfiles(u)
       \/ c = "select" /\ u.sub \in disks.amiga /\ Eject(u, "amiga", {u.sub}, "MAIN1")
       \/ c = "select" /\ u.sub \in 0 .. 3 \ disks.amiga
          /\ Choose(u, "ADF", "FILE_SELECTED", "MAIN1")
       \/ c = "back" /\ Eject(u, "amiga", 0 .. drives, "MAIN1")

MENU_FILE_SELECTED(u) ==
    /\ u.state = "FILE_SELECTED"
    /\ Insert(u, "amiga", u.sub, "MAIN1", IF u.sub + 1 > drives THEN 6 ELSE u.sub + 1)

MENU_MAIN2_1(u) ==
    /\ u.state = "MAIN2_1"
    /\ Draw(u, "MAIN2_1", "MAIN2_2", 0 .. 5)
    /\ OnlyMenu

SettingsPage(row) ==
    CASE row = 0 -> "LOADCONFIG_1"
      [] row = 1 -> "SAVECONFIG_1"
      [] row = 2 -> "SETTINGS_CHIPSET1"
      [] row = 3 -> "SETTINGS_MEMORY1"
      [] OTHER -> "SETTINGS_VIDEO1"

MENU_MAIN2_2(u, c) ==
    /\ u.state = "MAIN2_2"
    /\ \/ c = "menu" /\ GoTo(u, "NONE1")
       \/ c = "select" /\ u.sub < 5 /\ Enter(u, SettingsPage(u.sub), 0)
       \/ c = "select" /\ u.sub = 5 /\ GoTo(u, "NONE1")
       \/ c = "left" /\ Enter(u, "MAIN1", 0)
       \/ c = "right" /\ Enter(u, "MISC1", 0)
       \/ Otherwise(u, c, {"menu", "select", "left", "right"})
    /\ OnlyMenu

MENU_MISC1(u) ==
    /\ u.state = "MISC1"
    /\ Draw(u, "MISC1", "MISC2", 0 .. 3)
    /\ OnlyMenu

(* Row 3 says "exit" and does nothing: row 2 is tested in its place. *)
MENU_MISC2(u, c) ==
    /\ u.state = "MISC2"
    /\ \/ c = "menu" /\ Enter(u, "NONE1", 0)
       \/ c = "left" /\ Enter(u, "MAIN2_1", 0)
       \/ c = "select" /\ u.sub = 0 /\ GoTo(u, "RESET1")
       \/ c = "select" /\ u.sub = 1 /\ Enter(u, "FIRMWARE1", 1)
       \/ c = "select" /\ u.sub = 2 /\ Enter(u, "ABOUT1", 0)
       \/ c = "select" /\ u.sub = 3 /\ Stay(u)
       \/ Otherwise(u, c, {"menu", "left", "select"})
    /\ OnlyMenu

MENU_ABOUT1(u) ==
    /\ u.state = "ABOUT1"
    /\ Draw(u, "ABOUT1", "ABOUT2", {0})
    /\ OnlyMenu

MENU_ABOUT2(u, c) ==
    /\ u.state = "ABOUT2"
    /\ \/ c \in {"select", "menu"} /\ Enter(u, "MISC1", 2)
       \/ Otherwise(u, c, {"select", "menu"})
    /\ OnlyMenu
-----------------------------------------------------------------------------
(* Slots and reset.                                                        *)

(* The slots are looked up when the page is entered, not when it is drawn  *)
(* again.                                                                  *)
MENU_LOADCONFIG_1(u) ==
    /\ u.state = "LOADCONFIG_1"
    /\ Draw(u, "LOADCONFIG_1", "LOADCONFIG_2",
            IF u.parent = "LOADCONFIG_1" THEN u.mask
            ELSE {5} \cup {s \in Slots : saved[s] # NoConfig})
    /\ OnlyMenu

MENU_LOADCONFIG_2(u, c) ==
    /\ u.state = "LOADCONFIG_2"
    /\ \/ /\ \/ c = "down" /\ GoTo(u, "LOADCONFIG_1")
             \/ c = "select" /\ u.sub = 5 /\ Enter(u, "MAIN2_1", 0)
             \/ c = "menu" /\ Enter(u, "MAIN2_1", 0)
             \/ Otherwise(u, c, {"down", "select", "menu"})
          /\ OnlyMenu
       \/ /\ c = "select" /\ u.sub < 5
          /\ osd' = "off"
          /\ LoadConfiguration(u.sub)
          /\ GoTo(u, "NONE1") /\ Effect
          /\ UNCHANGED <<fs, t_hardfile, saved, disks, st>>

MENU_SAVECONFIG_1(u) ==
    /\ u.state = "SAVECONFIG_1"
    /\ Draw(u, "SAVECONFIG_1", "SAVECONFIG_2", 0 .. 5)
    /\ OnlyMenu

(* The file may not be written; the menu does not ask.                     *)
SaveConfiguration(u) ==
    /\ saved' \in {saved, [saved EXCEPT ![u.sub] = config]}
    /\ GoTo(u, "NONE1") /\ Effect
    /\ UNCHANGED <<osd, fs, config, t_hardfile, hdf, drives, disks, st, lost>>

MENU_SAVECONFIG_2(u, c) ==
    /\ u.state = "SAVECONFIG_2"
    /\ \/ /\ \/ c = "menu" /\ Enter(u, "MAIN2_1", 1)
             \/ c \in {"up", "down"} /\ GoTo(u, "SAVECONFIG_1")
             \/ c = "select" /\ u.sub = 5 /\ Enter(u, "MAIN2_1", 1)
             \/ Otherwise(u, c, {"menu", "up", "down", "select"})
          /\ OnlyMenu
       \/ c = "select" /\ u.sub \in Slots /\ SaveConfiguration(u)

(* A reset: the Amiga takes over the number of drives it was told. *)
OsdReset == drives' = DrivesTold(config)

MENU_RESET1(u) ==
    /\ u.state = "RESET1"
    /\ Draw(u, "RESET1", "RESET2", {0, 1})
    /\ OnlyMenu

MENU_RESET2(u, c) ==
    /\ u.state = "RESET2"
    /\ \/ /\ c = "select" /\ u.sub = 0
          /\ OsdReset
          /\ GoTo(u, "NONE1")
          /\ UNCHANGED <<core, mmc, osd, fs, config, t_hardfile, saved, hdf,
                         disks, st, effects, lost>>
       \/ /\ \/ Leaves(u, c, 1) /\ Enter(u, "MISC1", 0)
             \/ Otherwise(u, c, {"menu", "select"})
          /\ OnlyMenu

-----------------------------------------------------------------------------
(* Settings.                                                               *)

(* This page moves its cursor itself. *)
MENU_SETTINGS_CHIPSET1(u) ==
    /\ u.state = "SETTINGS_CHIPSET1"
    /\ Draw(u, u.parent, "SETTINGS_CHIPSET2", {})
    /\ OnlyMenu

MENU_SETTINGS_CHIPSET2(u, c) ==
    /\ u.state = "SETTINGS_CHIPSET2"
    /\ \/ c = "down" /\ u.sub < 4 /\ Enter(u, "SETTINGS_CHIPSET1", u.sub + 1)
       \/ c = "up" /\ u.sub > 0 /\ Enter(u, "SETTINGS_CHIPSET1", u.sub - 1)
       \/ c = "select" /\ u.sub < 4 /\ GoTo(u, "SETTINGS_CHIPSET1")
       \/ Leaves(u, c, 4) /\ Enter(u, "MAIN2_1", 2)
       \/ c = "right" /\ Enter(u, "SETTINGS_MEMORY1", 0)
       \/ c = "left" /\ Enter(u, "SETTINGS_VIDEO1", 0)
       \/ Otherwise(u, c, {"select", "menu", "right", "left"})
    /\ OnlyMenu

MENU_SETTINGS_MEMORY1(u) ==
    /\ u.state = "SETTINGS_MEMORY1"
    /\ Draw(u, "SETTINGS_MEMORY1", "SETTINGS_MEMORY2", 0 .. 5)
    /\ OnlyMenu

MENU_SETTINGS_MEMORY2(u, c) ==
    /\ u.state = "SETTINGS_MEMORY2"
    /\ \/ /\ \/ c = "select" /\ u.sub \in {0, 1, 2, 4} /\ GoTo(u, "SETTINGS_MEMORY1")
             \/ Leaves(u, c, 5) /\ Enter(u, "MAIN2_1", 3)
             \/ c = "right" /\ Enter(u, "SETTINGS_VIDEO1", 0)
             \/ c = "left" /\ Enter(u, "SETTINGS_CHIPSET1", 0)
             \/ Otherwise(u, c, {"select", "menu", "right", "left"})
          /\ OnlyMenu
       \/ c = "select" /\ u.sub = 3
          /\ Choose(u, "ROM", "ROMFILE_SELECTED", "SETTINGS_MEMORY1")

MENU_SETTINGS_VIDEO1(u) ==
    /\ u.state = "SETTINGS_VIDEO1"
    /\ Draw(u, "SETTINGS_VIDEO1", "SETTINGS_VIDEO2",
            IF minimig_v1 THEN 0 .. 3 ELSE 0 .. 4)
    /\ OnlyMenu

MENU_SETTINGS_VIDEO2(u, c) ==
    LET exit == IF minimig_v1 THEN 3 ELSE 4
    IN  /\ u.state = "SETTINGS_VIDEO2"
        /\ \/ c = "select" /\ u.sub # exit /\ GoTo(u, "SETTINGS_VIDEO1")
           \/ Leaves(u, c, exit) /\ Enter(u, "MAIN2_1", 4)
           \/ c = "right" /\ Enter(u, "SETTINGS_CHIPSET1", 0)
           \/ c = "left" /\ Enter(u, "SETTINGS_MEMORY1", 0)
           \/ Otherwise(u, c, {"select", "menu", "right", "left"})
        /\ OnlyMenu

(* The case of ROMFILE_SELECTED falls through to the page it asks with. *)
MENU_ROMFILE_SELECTED(u) ==
    /\ u.state \in {"ROMFILE_SELECTED", "ROMFILE_SELECTED1"}
    /\ Draw([u EXCEPT !.sub = IF u.state = "ROMFILE_SELECTED" THEN 1 ELSE @],
            "ROMFILE_SELECTED1", "ROMFILE_SELECTED2", {0, 1})
    /\ OnlyMenu

(* The kickstart is uploaded, under a reset. *)
MENU_ROMFILE_SELECTED2(u, c) ==
    /\ u.state = "ROMFILE_SELECTED2"
    /\ \/ /\ c = "select" /\ u.sub = 0
          /\ osd' = "off"
          /\ drives' \in {DrivesTold(config), drives}
          /\ GoTo(u, "NONE1") /\ Charged
          /\ UNCHANGED <<fs, config, t_hardfile, saved, hdf, disks, st, lost>>
       \/ /\ \/ Leaves(u, c, 1)
                /\ Enter(u, "SETTINGS_MEMORY1", 2)
             \/ Otherwise(u, c, {"menu", "select"})
          /\ OnlyMenu

-----------------------------------------------------------------------------
(* The hard disks.  Row 0 is the IDE interface, rows 1 and 3 are the kinds *)
(* of the two, rows 2 and 4 their files, row 5 is exit.                    *)

IsFile(i) == config.hardfile[i].kind \in {HDF_FILE, HDF_SYNTHRDB}

KindRow(i) == 2 * i + 1
FileRow(i) == 2 * i + 2

MENU_SETTINGS_HARDFILE1(u) ==
    /\ u.state = "SETTINGS_HARDFILE1"
    /\ Draw(u, "SETTINGS_HARDFILE1", "SETTINGS_HARDFILE2",
            {0, 5} \cup IF ~config.ide THEN {}
                        ELSE {1, 3} \cup {FileRow(i) : i \in {j \in Units : IsFile(j)}})
    /\ OnlyMenu

(* File, file with a synthesized partition table, card, partitions, none. *)
NextKind(k) ==
    CASE k = HDF_FILE -> HDF_SYNTHRDB
      [] k = HDF_SYNTHRDB -> HDF_FILE + 1
      [] OTHER -> (k + 1) % (3 + Partitions)

Change(u, c, page, row) ==
    /\ config' = c
    /\ Enter(u, page, row)
    /\ UNCHANGED <<osd, fs, t_hardfile, saved, hdf, drives, disks, st, lost>>

MENU_SETTINGS_HARDFILE2(u, c) ==
    /\ u.state = "SETTINGS_HARDFILE2"
    /\ \/ /\ c = "select" /\ u.sub = 0
          /\ Change(u, [config EXCEPT !.ide = ~@], "SETTINGS_HARDFILE1", 0)
          /\ Effect
       \/ \E i \in Units :
            /\ c = "select" /\ u.sub = KindRow(i)
            /\ Change(u, [config EXCEPT !.hardfile[i].kind = NextKind(@)],
                      "SETTINGS_HARDFILE1", u.sub)
            /\ Effect
       \/ /\ c = "select" /\ u.sub \in {2, 4}
          /\ Choose(u, "HDF", "HARDFILE_SELECTED", "SETTINGS_HARDFILE1")
       \/ /\ \/ Leaves(u, c, 5) /\ GoTo(u, "HARDFILE_EXIT")
             \/ Otherwise(u, c, {"select", "menu"})
          /\ OnlyMenu

(* What GetHDFFileType() finds in the file sets the kind, or is warned of. *)
MENU_HARDFILE_SELECTED(u) ==
    /\ u.state = "HARDFILE_SELECTED"
    /\ Charged
    /\ \E i \in Units, n \in Names :
        LET named == [config EXCEPT !.hardfile[i].name = n, !.hardfile[i].present = TRUE]
        IN  /\ u.sub = FileRow(i)
            /\ \/ \E k \in {HDF_FILE, HDF_SYNTHRDB} :
                    Change(u, [named EXCEPT !.hardfile[i].kind = k],
                           "SETTINGS_HARDFILE1", u.sub)
               \/ Change(u, named, IF config.hardfile[i].kind = HDF_FILE
                                   THEN "SYNTHRDB1" ELSE "SYNTHRDB2_1", 0)
               \/ Change(u, [named EXCEPT !.hardfile[i].present = FALSE],
                         "SETTINGS_HARDFILE1", u.sub)

MENU_SYNTHRDB1(u) ==
    /\ u.state \in {"SYNTHRDB1", "SYNTHRDB2_1"}
    /\ Draw(u, u.state, "SYNTHRDB2", {0})
    /\ OnlyMenu

MENU_SYNTHRDB2(u, c) ==
    /\ u.state = "SYNTHRDB2"
    /\ \/ c \in {"select", "menu"} /\ u.sub = 0 /\ GoTo(u, "SETTINGS_HARDFILE1")
       \/ Otherwise(u, c, {"select", "menu"})
    /\ OnlyMenu

MENU_HARDFILE_EXIT(u) ==
    /\ u.state = "HARDFILE_EXIT"
    /\ IF config.hardfile # t_hardfile
       THEN Enter(u, "HARDFILE_CHANGED1", 1)
       ELSE Enter(u, "MAIN1", 5)
    /\ OnlyMenu

MENU_HARDFILE_CHANGED1(u) ==
    /\ u.state = "HARDFILE_CHANGED1"
    /\ Draw(u, "HARDFILE_CHANGED1", "HARDFILE_CHANGED2", {0, 1})
    /\ OnlyMenu

\* Mutant: another file of the same kind is not opened.
SameHardfileByKind(h, old) == h.kind = old.kind

SameHardfile(h, old) == h.kind = old.kind /\ h.name = old.name

OpenHardfiles(u) ==
    LET same(i) == SameHardfile(config.hardfile[i], t_hardfile[i])
    IN  /\ hdf' = [i \in Units |-> IF same(i) THEN hdf[i] ELSE OpenedAs(config.hardfile[i])]
        /\ config' = [config EXCEPT !.hardfile =
                [i \in Units |-> IF same(i) THEN @[i] ELSE Opened(@[i])]]
        /\ OsdReset
        /\ GoTo(u, "NONE1") /\ Charged
        /\ UNCHANGED <<osd, fs, t_hardfile, saved, disks, st, lost>>

\* Mutant: back to the page, with the changes kept.
RestoreForgotten(u) ==
    /\ Enter(u, "SETTINGS_HARDFILE1", 5)
    /\ OnlyMenu

Restore(u) ==
    /\ config' = [config EXCEPT !.hardfile = t_hardfile]
    /\ Enter(u, "MAIN1", 3)
    /\ UNCHANGED <<core, mmc, osd, fs, t_hardfile, saved, hdf, drives, disks,
                   st, effects, lost>>

MENU_HARDFILE_CHANGED2(u, c) ==
    /\ u.state = "HARDFILE_CHANGED2"
    /\ \/ c = "select" /\ u.sub = 0 /\ OpenHardfiles(u)
       \/ Leaves(u, c, 1) /\ Restore(u)
       \/ Otherwise(u, c, {"select", "menu"}) /\ OnlyMenu

(* No card: the floppies of all drives but the last are ejected. *)
EjectAllFloppies ==
    /\ IsMinimig
    /\ disks' = [disks EXCEPT !.amiga = @ \ {d \in @ : d < drives}]
    /\ config' = [config EXCEPT !.hardfile =
            [i \in Units |-> [@[i] EXCEPT !.present = FALSE]]]
    /\ Effect
    /\ UNCHANGED <<ui, osd, fs, t_hardfile, saved, hdf, drives, st, lost>>
=============================================================================
