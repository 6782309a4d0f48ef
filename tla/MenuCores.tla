----------------------------- MODULE MenuCores -----------------------------
(***************************************************************************)
(* The pages of the Archimedes, of the 8 bit cores and of the Atari ST in  *)
(* HandleUI().  As for the Minimig, a setting that the core is told at     *)
(* once is left out and only draws the page again.                         *)
(***************************************************************************)
EXTENDS MenuBase

(* A drive is emptied, or a file is chosen for it. *)
Toggle(u, machine, d, page, ext, select) ==
    \/ /\ d \in disks[machine]
       /\ disks' = [disks EXCEPT ![machine] = @ \ {d}]
       /\ GoTo(u, page) /\ Effect
       /\ UNCHANGED <<osd, fs, config, t_hardfile, saved, hdf, drives, st, lost>>
    \/ d \notin disks[machine] /\ Choose(u, ext, select, page)

Fill(u, machine, d, page) ==
    /\ disks' = [disks EXCEPT ![machine] = @ \cup {d}]
    /\ GoTo(u, page) /\ Charged
    /\ UNCHANGED <<osd, fs, config, t_hardfile, saved, hdf, drives, st, lost>>

-----------------------------------------------------------------------------
(* Archimedes.                                                             *)

MENU_ARCHIE_MAIN1(u) ==
    /\ u.state = "ARCHIE_MAIN1"
    /\ Draw(u, "ARCHIE_MAIN1", "ARCHIE_MAIN2", 0 .. 5)
    /\ OnlyMenu

MENU_ARCHIE_MAIN2(u, c) ==
    /\ u.state = "ARCHIE_MAIN2"
    /\ \/ /\ c = "select" /\ u.sub \in {0, 1}
          /\ Toggle(u, "archie", u.sub, "ARCHIE_MAIN1", "ADF", "ARCHIE_MAIN_FILE_SELECTED")
       \/ c = "select" /\ u.sub = 2
          /\ Choose(u, "ROM", "ARCHIE_MAIN_FILE_SELECTED", "ARCHIE_MAIN1")
       \/ /\ \/ c = "select" /\ u.sub = 3 /\ Enter(u, "FIRMWARE1", 1)
             \/ c = "select" /\ u.sub = 4 /\ GoTo(u, "NONE1")
             \/ Leaves(u, c, 5) /\ GoTo(u, "NONE1")
             \/ Otherwise(u, c, {"select", "menu"})
          /\ OnlyMenu

MENU_ARCHIE_MAIN_FILE_SELECTED(u) ==
    /\ u.state = "ARCHIE_MAIN_FILE_SELECTED"
    /\ \/ u.sub \in {0, 1} /\ Fill(u, "archie", u.sub, "ARCHIE_MAIN1")
       \/ u.sub \notin {0, 1} /\ GoTo(u, "ARCHIE_MAIN1") /\ OnlyMenu

-----------------------------------------------------------------------------
(* 8 bit cores: the rows are what the core asks for.                       *)

HasFile == FirstExt # ""

(* A row for the files of entry 1, if there are any, then one for each     *)
(* string.                                                                 *)
MENU_8BIT_MAIN1(u) ==
    /\ u.state = "8BIT_MAIN1"
    /\ Draw(u, "8BIT_MAIN1", "8BIT_MAIN2",
            IF HasFile THEN 0 .. Len(Strings) ELSE 0 .. Len(Strings) - 1)
    /\ OnlyMenu

StringOf(row) == Strings[IF HasFile THEN row ELSE row + 1]

(* The extension of a string is copied to a buffer that only the next one  *)
(* replaces; the one of entry 1 has a buffer of its own, that never        *)
(* changes.                                                                *)
MENU_8BIT_MAIN2(u, c) ==
    /\ u.state = "8BIT_MAIN2"
    /\ \/ c = "select" /\ HasFile /\ u.sub = 0
          /\ Choose(u, FirstExt, "8BIT_MAIN_FILE_SELECTED", "8BIT_MAIN1")
       \/ /\ c = "select" /\ ~(HasFile /\ u.sub = 0) /\ Strings # <<>>
          /\ LET p == StringOf(u.sub)
             IN  \/ /\ p.kind \in {"F", "S"}
                    /\ SelectFile(u, "ext", p.ext,
                                  IF p.kind = "F" THEN "8BIT_MAIN_FILE_SELECTED"
                                  ELSE "8BIT_MAIN_IMAGE_SELECTED", "8BIT_MAIN1")
                    /\ NoEffect /\ UNCHANGED <<osd, lost>>
                 \/ p.kind \in {"T", "O"} /\ GoTo(u, "8BIT_MAIN1") /\ OnlyMenu
       \/ /\ \/ c = "menu" /\ GoTo(u, "NONE1")
             \/ c = "right" /\ Enter(u, "8BIT_SYSTEM1", 0)
             \/ Otherwise(u, c, {"select", "menu", "right"})
          /\ OnlyMenu

(* The file is sent, or mounted as the SD card. *)
MENU_8BIT_MAIN_SELECTED(u) ==
    /\ u.state \in {"8BIT_MAIN_FILE_SELECTED", "8BIT_MAIN_IMAGE_SELECTED"}
    /\ GoTo(u, "NONE1")
    /\ OnlyMenu

MENU_8BIT_SYSTEM1(u) ==
    /\ u.state = "8BIT_SYSTEM1"
    /\ Draw(u, "8BIT_SYSTEM1", "8BIT_SYSTEM2", {0, 1})
    /\ OnlyMenu

(* Row 1 saves the settings of the core. *)
MENU_8BIT_SYSTEM2(u, c) ==
    /\ u.state = "8BIT_SYSTEM2"
    /\ \/ c = "menu" /\ GoTo(u, "NONE1")
       \/ c = "select" /\ u.sub = 0 /\ Enter(u, "FIRMWARE1", 1)
       \/ c = "select" /\ u.sub = 1 /\ Stay(u)
       \/ c = "left" /\ Enter(u, "8BIT_MAIN1", 0)
       \/ Otherwise(u, c, {"menu", "select", "left"})
    /\ OnlyMenu

-----------------------------------------------------------------------------
(* Atari ST.                                                               *)

MENU_MIST_MAIN1(u) ==
    /\ u.state = "MIST_MAIN1"
    /\ Draw(u, "MIST_MAIN1", "MIST_MAIN2", 0 .. 7)
    /\ OnlyMenu

MistPage(row) ==
    CASE row = 2 -> "MIST_STORAGE1"
      [] row = 3 -> "MIST_SYSTEM1"
      [] OTHER -> "MIST_VIDEO1"

(* Row 1 is the screen, row 6 saves the configuration. *)
MENU_MIST_MAIN2(u, c) ==
    /\ u.state = "MIST_MAIN2"
    /\ \/ c = "select" /\ u.sub = 0
          /\ Toggle(u, "st", 0, "MIST_MAIN1", "ST ", "MIST_MAIN_FILE_SELECTED")
       \/ /\ \/ c = "select" /\ u.sub = 1 /\ GoTo(u, "MIST_MAIN1")
             \/ c = "select" /\ u.sub \in 2 .. 4 /\ Enter(u, MistPage(u.sub), 0)
             \/ c = "select" /\ u.sub = 5 /\ Enter(u, "FIRMWARE1", 1)
             \/ c = "select" /\ u.sub = 6 /\ GoTo(u, "NONE1")
             \/ Leaves(u, c, 7) /\ GoTo(u, "NONE1")
             \/ Otherwise(u, c, {"select", "menu"})
          /\ OnlyMenu

MENU_MIST_MAIN_FILE_SELECTED(u) ==
    /\ u.state = "MIST_MAIN_FILE_SELECTED"
    /\ Fill(u, "st", 0, "MIST_MAIN1")

(* Disks 0 and 1 are the floppies, 2 and 3 the ACSI disks.  With direct    *)
(* access to the card ACSI 0 has no row, and those below move up.          *)
DiskOf(row) == IF row < 2 THEN row ELSE IF st.direct THEN row - 1 ELSE row - 2
StorageExit == IF st.direct THEN 5 ELSE 6

MENU_MIST_STORAGE1(u) ==
    /\ u.state = "MIST_STORAGE1"
    /\ Draw(u, "MIST_STORAGE1", "MIST_STORAGE2", 0 .. StorageExit)
    /\ OnlyMenu

(* Row 2 is the write protection, row 3 the direct access. *)
MENU_MIST_STORAGE2(u, c) ==
    /\ u.state = "MIST_STORAGE2"
    /\ \/ /\ c = "select" /\ u.sub \in ({0, 1} \cup 4 .. 5) \ {StorageExit}
          /\ Toggle(u, "st", DiskOf(u.sub), "MIST_STORAGE1",
                    IF u.sub < 2 THEN "ST " ELSE "HD ", "MIST_STORAGE_FILE_SELECTED")
       \/ /\ c = "select" /\ u.sub = 3
          /\ st' = [st EXCEPT !.direct = ~@]
          /\ GoTo(u, "MIST_STORAGE1") /\ Effect
          /\ UNCHANGED <<osd, fs, config, t_hardfile, saved, hdf, drives, disks, lost>>
       \/ /\ \/ c = "select" /\ u.sub = 2 /\ GoTo(u, "MIST_STORAGE1")
             \/ Leaves(u, c, StorageExit) /\ Enter(u, "MIST_MAIN1", 2)
             \/ Otherwise(u, c, {"select", "menu"})
          /\ OnlyMenu

MENU_MIST_STORAGE_FILE_SELECTED(u) ==
    /\ u.state = "MIST_STORAGE_FILE_SELECTED"
    /\ Fill(u, "st", DiskOf(u.sub), "MIST_STORAGE1")

MENU_MIST_SYSTEM1(u) ==
    /\ u.state = "MIST_SYSTEM1"
    /\ Draw(u, "MIST_SYSTEM1", "MIST_SYSTEM2", 0 .. 7)
    /\ OnlyMenu

Cartridge(u, inserted) ==
    /\ st' = [st EXCEPT !.cart = inserted]
    /\ GoTo(u, "MIST_SYSTEM1")
    /\ UNCHANGED <<osd, fs, config, t_hardfile, saved, hdf, drives, disks, lost>>

(* Rows 0, 1 and 4 change a setting, 5 and 6 reset the ST. *)
MENU_MIST_SYSTEM2(u, c) ==
    /\ u.state = "MIST_SYSTEM2"
    /\ \/ /\ c = "select" /\ u.sub \in {2, 3} /\ (st.cart => u.sub = 2)
          /\ Choose(u, "IMG", "MIST_SYSTEM_FILE_SELECTED", "MIST_SYSTEM1")
       \/ c = "select" /\ u.sub = 3 /\ st.cart /\ Cartridge(u, FALSE) /\ Effect
       \/ /\ \/ c = "select" /\ u.sub \in {0, 1, 4} /\ GoTo(u, "MIST_SYSTEM1")
             \/ c = "select" /\ u.sub \in {5, 6} /\ GoTo(u, "NONE1")
             \/ Leaves(u, c, 7) /\ Enter(u, "MIST_MAIN1", 3)
             \/ Otherwise(u, c, {"select", "menu"})
          /\ OnlyMenu

(* Row 2 uploads a new TOS. *)
MENU_MIST_SYSTEM_FILE_SELECTED(u) ==
    /\ u.state = "MIST_SYSTEM_FILE_SELECTED"
    /\ \/ u.sub = 2 /\ GoTo(u, "MIST_SYSTEM1") /\ OnlyMenu
       \/ u.sub = 3 /\ Cartridge(u, TRUE) /\ Charged

MENU_MIST_VIDEO1(u) ==
    /\ u.state = "MIST_VIDEO1"
    /\ Draw(u, "MIST_VIDEO1", "MIST_VIDEO2", 0 .. 6)
    /\ OnlyMenu

(* The blitter, row 2, cannot be switched on an STE. *)
MENU_MIST_VIDEO2(u, c) ==
    /\ u.state = "MIST_VIDEO2"
    /\ \/ c = "select" /\ u.sub \in {0, 1, 2, 3, 5} /\ GoTo(u, "MIST_VIDEO1")
       \/ c = "select" /\ u.sub = 2 /\ Stay(u)
       \/ c = "select" /\ u.sub = 4 /\ Enter(u, "MIST_VIDEO_ADJUST1", 0)
       \/ Leaves(u, c, 6) /\ Enter(u, "MIST_MAIN1", 4)
       \/ Otherwise(u, c, {"select", "menu"})
    /\ OnlyMenu

MENU_MIST_VIDEO_ADJUST1(u) ==
    /\ u.state = "MIST_VIDEO_ADJUST1"
    /\ Draw(u, "MIST_VIDEO_ADJUST1", "MIST_VIDEO_ADJUST2", 0 .. 4)
    /\ OnlyMenu

(* Rows 2 and 3, the position, are changed with the cursor keys. *)
MENU_MIST_VIDEO_ADJUST2(u, c) ==
    /\ u.state = "MIST_VIDEO_ADJUST2"
    /\ \/ /\ \/ c = "select" /\ u.sub \in {0, 1}
             \/ c \in {"left", "right"} /\ u.sub \in {2, 3}
          /\ GoTo(u, "MIST_VIDEO_ADJUST1")
       \/ Leaves(u, c, 4) /\ Enter(u, "MIST_VIDEO1", 4)
       \/ /\ \/ c = "select" /\ u.sub \in {2, 3}
             \/ c \in {"left", "right"} /\ u.sub \notin {2, 3}
          /\ Stay(u)
       \/ Otherwise(u, c, {"menu", "select", "left", "right"})
    /\ OnlyMenu
=============================================================================
