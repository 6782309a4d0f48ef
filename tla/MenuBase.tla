------------------------------ MODULE MenuBase ------------------------------
(***************************************************************************)
(* The on-screen menu of src/firmware/menu.c.  HandleUI() is called once   *)
(* in every round of the main loop with the key that was pressed since the *)
(* last round: it moves the cursor and then runs the case of the current   *)
(* menustate.  A page has two states, X1 that draws it and X2 that waits   *)
(* for keys.  This module has the state of the menu, the cursor and the    *)
(* file selector that all pages share; the pages are in MenuMinimig and    *)
(* MenuCores, the whole of HandleUI() in Menu.                             *)
(***************************************************************************)
EXTENDS Integers, Sequences, FiniteSetsExt

CONSTANTS
    Cores,          \* the core types that can be loaded
    UsbCores,       \* bound: those it starts with from a USB disk
    Strings,        \* config string of the 8 bit core, from entry 2 on
    FirstExt,       \* its entry 1, the extension of its files, or ""
    Units,          \* the Minimig's hard disks, 0 and 1
    Partitions,     \* partitioncount
    Names,          \* hardfiles on the card, the user may select them
    Slots,          \* bound: configuration files the user saves to
    InitSaved,      \* what they hold at power-up
    MaxEffects      \* bound: selections that change more than the menu

HDF_FILE == 1
HDF_SYNTHRDB == 128 + HDF_FILE
Kinds == 0 .. 2 + Partitions \cup {HDF_SYNTHRDB}

CoreTypes == {"minimig1", "minimig2", "mist", "archie", "8bit"}
Literals == {"ADF", "ROM", "ST ", "HD ", "IMG", "HDF", "RBF"}
Exts == Literals \cup {FirstExt} \cup {Strings[i].ext : i \in DOMAIN Strings}

(* The display has eight lines, and "ext" stands for a buffer and not for   *)
(* an extension.                                                           *)
ASSUME MenuAssumption ==
    /\ Cores \subseteq CoreTypes /\ Cores # {} /\ UsbCores \subseteq Cores
    /\ Strings \in Seq([kind : {"F", "S", "T", "O"}, ext : STRING])
    /\ Len(Strings) <= 8 /\ (FirstExt # "" => Len(Strings) <= 7)
    /\ "ext" \notin Exts
    /\ Units \subseteq {0, 1} /\ Partitions \in 0 .. 4
    /\ Slots \subseteq 0 .. 4 /\ MaxEffects \in Nat

VARIABLES
    core,           \* the type of the running core
    mmc,            \* the file system is on the SD card, not on USB
    ui,             \* menustate, parentstate, menusub and menumask
    osd,            \* nothing shown, the menu, or a message
    fs,             \* the file selector: pointer, its buffer, what is listed
    config,         \* the Minimig's configuration as the menu shows it
    t_hardfile,     \* copy of its hard disks, made when their page is entered
    saved,          \* configurations in the slots of the card
    hdf,            \* history: kind and name OpenHardfile() was last called with
    drives,         \* floppy drives but one that the Amiga has
    disks,          \* drives with a disk, for each of the three machines
    st,             \* Atari ST: direct access to the card, cartridge
    effects,        \* bound: selections that changed something
    lost            \* history: a message closed the page of the hard disks

world == <<config, t_hardfile, saved, hdf, drives, disks, st>>
vars == <<core, mmc, ui, osd, fs, world, effects, lost>>

NoConfig == [drives |-> 0, ide |-> FALSE, hardfile |-> <<>>]
Hardfile == [kind : Kinds, name : Names \cup {"HARDFILE"}, present : BOOLEAN]

-----------------------------------------------------------------------------
(* The cursor and the pages.                                               *)

(* Standardised menu up/down.  Below the lowest row, "up" finds no bit of  *)
(* the mask until the shift has wrapped, and stops at the highest row.     *)
Moved(c) ==
    LET below == {r \in ui.mask : r > ui.sub}
        above == {r \in ui.mask : r < ui.sub}
    IN  CASE c = "down" /\ below # {} ->
                [ui EXCEPT !.sub = Min(below), !.state = ui.parent]
          [] c = "up" /\ ui.sub > 0 /\ ui.mask # {} ->
                [ui EXCEPT !.sub = Max(IF above # {} THEN above ELSE ui.mask),
                           !.state = ui.parent]
          [] OTHER -> ui

(* A page is drawn: its rows that can be selected, and what waits for keys. *)
Draw(u, page, next, rows) ==
    ui' = [state |-> next, parent |-> page, sub |-> u.sub, mask |-> rows]

GoTo(u, state) == ui' = [u EXCEPT !.state = state]
Enter(u, state, row) == ui' = [u EXCEPT !.state = state, !.sub = row]
Stay(u) == ui' = u

(* The menu key, which ESC stands for, or the row that says so. *)
Leaves(u, c, row) == c = "menu" \/ (c = "select" /\ u.sub = row)

(* A page has nothing for the other keys. *)
Otherwise(u, c, keys) == c \notin keys /\ Stay(u)

OnlyMenu == UNCHANGED <<core, mmc, osd, fs, world, effects, lost>>

(* Something besides the menu changes. *)
Effect ==
    /\ effects < MaxEffects
    /\ effects' = effects + 1
    /\ UNCHANGED <<core, mmc>>

(* The change follows from a selection that was counted. *)
Charged == UNCHANGED <<core, mmc, effects>>

NoEffect == UNCHANGED <<core, mmc, world, effects>>

-----------------------------------------------------------------------------
(* The file selector.  It keeps a pointer to the extension it lists: to a  *)
(* literal, or to the buffer "ext" of the 8 bit menu, which is filled anew *)
(* every time.                                                             *)

Points(ptr, buffer) == IF ptr = "ext" THEN buffer ELSE ptr

Wanted == Points(fs.ptr, fs.buffer)

\* Mutant: the list is kept when the extension differs.
SelectFileKeeps(u, ptr, buffer, select, cancel) ==
    /\ GoTo(u, "FILE_SELECT1")
    /\ fs' = [fs EXCEPT !.ptr = ptr, !.buffer = buffer,
                        !.select = select, !.cancel = cancel]

(* The new extension is compared with what the old pointer reads now. *)
SelectFile(u, ptr, buffer, select, cancel) ==
    /\ GoTo(u, "FILE_SELECT1")
    /\ fs' = [ptr |-> ptr, buffer |-> buffer,
              list |-> IF Points(ptr, buffer) # Points(fs.ptr, buffer)
                       THEN Points(ptr, buffer) ELSE fs.list,
              select |-> select, cancel |-> cancel]

Choose(u, ext, select, cancel) ==
    /\ SelectFile(u, ext, fs.buffer, select, cancel)
    /\ NoEffect /\ UNCHANGED <<osd, lost>>

MENU_FILE_SELECT1(u) ==
    /\ u.state = "FILE_SELECT1"
    /\ GoTo(u, "FILE_SELECT2")
    /\ OnlyMenu

(* Scrolling, searching and changing the directory may scan it again. *)
Browse(u) ==
    /\ Enter([u EXCEPT !.mask = {}], "FILE_SELECT1", u.sub)
    /\ \E list \in {fs.list, Wanted} : fs' = [fs EXCEPT !.list = list]

(* The entry under the cursor is a directory, or a file, or there is none. *)
MENU_FILE_SELECT2(u, c) ==
    LET page == [u EXCEPT !.mask = {}]
    IN  /\ u.state = "FILE_SELECT2"
        /\ \/ c \in {"up", "down", "back", "browse", "select"} /\ Browse(u)
              /\ UNCHANGED <<core, mmc, effects>>
           \/ c = "select" /\ GoTo(page, fs.select) /\ Effect /\ UNCHANGED fs
           \/ /\ \/ c = "menu" /\ GoTo(page, fs.cancel)
                 \/ c \notin {"up", "down", "browse", "menu"} /\ Stay(page)
              /\ UNCHANGED <<core, mmc, fs, effects>>
        /\ UNCHANGED <<osd, world, lost>>
=============================================================================
