-------------------------------- MODULE Menu --------------------------------
(***************************************************************************)
(* The whole of HandleUI(): the pages of the machines, the pages of the    *)
(* firmware, the closed menu and the messages that other parts of the      *)
(* firmware show over it.                                                  *)
(***************************************************************************)
EXTENDS MenuMinimig, MenuCores

Keys == {"none", "menu", "select", "up", "down", "left", "right",
         "plus", "minus", "back", "browse"}

-----------------------------------------------------------------------------
(* Closed.                                                                 *)

\* Mutant: the display stays.
MENU_NONE1Keeps(u) ==
    /\ u.state = "NONE1"
    /\ ui' = [u EXCEPT !.state = "NONE2", !.mask = {}]
    /\ NoEffect /\ UNCHANGED <<osd, fs, lost>>

MENU_NONE1(u) ==
    /\ u.state = "NONE1"
    /\ ui' = [u EXCEPT !.state = "NONE2", !.mask = {}]
    /\ osd' = "off"
    /\ NoEffect /\ UNCHANGED <<fs, lost>>

MainPage == CASE IsMinimig -> "MAIN1"
              [] core = "mist" -> "MIST_MAIN1"
              [] core = "archie" -> "ARCHIE_MAIN1"
              [] OTHER -> "8BIT_MAIN1"

(* ESC does not open the menu. *)
MENU_NONE2(u, c) ==
    /\ u.state = "NONE2"
    /\ \/ /\ c = "menu"
          /\ Enter(u, MainPage, 0)
          /\ osd' = "menu"
       \/ Otherwise(u, c, {"menu"}) /\ UNCHANGED osd
    /\ NoEffect /\ UNCHANGED <<fs, lost>>

-----------------------------------------------------------------------------
(* Firmware and core.                                                      *)

(* No update from a USB disk: the rows move up. *)
CoreRow == IF mmc THEN 1 ELSE 0

MENU_FIRMWARE1(u) ==
    /\ u.state = "FIRMWARE1"
    /\ Draw(u, "FIRMWARE1", "FIRMWARE2", 0 .. CoreRow + 1)
    /\ OnlyMenu

Back(u) ==
    \/ IsMinimig /\ Enter(u, "MISC1", 1)
    \/ core = "mist" /\ Enter(u, "MIST_MAIN1", 5)
    \/ core = "archie" /\ Enter(u, "ARCHIE_MAIN1", 3)
    \/ core = "8bit" /\ Enter(u, "8BIT_SYSTEM1", 0)

MENU_FIRMWARE2(u, c) ==
    /\ u.state = "FIRMWARE2"
    /\ \/ /\ \/ /\ c = "select" /\ mmc /\ u.sub = 0
                /\ \E page \in {"FIRMWARE_UPDATE1", "FIRMWARE_UPDATE_ERROR1"} :
                        Enter(u, page, 1)
             \/ c = "menu" /\ Back(u)
             \/ c = "select" /\ u.sub > CoreRow /\ Back(u)
             \/ Otherwise(u, c, {"select", "menu"})
          /\ OnlyMenu
       \/ c = "select" /\ u.sub = CoreRow
          /\ Choose(u, "RBF", "FIRMWARE_CORE_FILE_SELECTED", "FIRMWARE1")

(* fpga_init(): the new core may be of another type.  The Minimig is set   *)
(* up with the default configuration and no floppies.                      *)
MENU_FIRMWARE_CORE_FILE_SELECTED(u) ==
    /\ u.state = "FIRMWARE_CORE_FILE_SELECTED"
    /\ osd' = "off"
    /\ GoTo(u, "NONE1")
    /\ core' \in Cores
    /\ IF core' \in {"minimig1", "minimig2"}
       THEN LoadConfiguration(0) /\ disks' = [disks EXCEPT !.amiga = {}]
       ELSE UNCHANGED <<config, hdf, drives, disks, lost>>
    /\ UNCHANGED <<mmc, fs, t_hardfile, saved, st, effects>>

MENU_FIRMWARE_UPDATE1(u) ==
    /\ u.state = "FIRMWARE_UPDATE1"
    /\ Draw(u, "FIRMWARE_UPDATE1", "FIRMWARE_UPDATE2", {0, 1})
    /\ OnlyMenu

(* The menu key has no effect here. *)
MENU_FIRMWARE_UPDATE2(u, c) ==
    /\ u.state = "FIRMWARE_UPDATE2"
    /\ \/ c = "select" /\ u.sub = 0 /\ Enter(u, "FIRMWARE_UPDATING1", 0)
       \/ c = "select" /\ u.sub = 1 /\ Enter(u, "FIRMWARE1", 2)
       \/ Otherwise(u, c, {"select"})
    /\ OnlyMenu

MENU_FIRMWARE_UPDATING1(u) ==
    /\ u.state = "FIRMWARE_UPDATING1"
    /\ Draw(u, "FIRMWARE_UPDATING1", "FIRMWARE_UPDATING2", {})
    /\ OnlyMenu

(* WriteFirmware() restarts the ARM, unless the file is bad. *)
MENU_FIRMWARE_UPDATING2(u) ==
    /\ u.state = "FIRMWARE_UPDATING2"
    /\ Enter(u, "FIRMWARE_UPDATE_ERROR1", 0)
    /\ OnlyMenu

(* This page leaves the mask of the one before. *)
MENU_FIRMWARE_UPDATE_ERROR1(u) ==
    /\ u.state = "FIRMWARE_UPDATE_ERROR1"
    /\ Draw(u, "FIRMWARE_UPDATE_ERROR1", "FIRMWARE_UPDATE_ERROR2", u.mask)
    /\ OnlyMenu

(* Nor does it here. *)
MENU_FIRMWARE_UPDATE_ERROR2(u, c) ==
    /\ u.state = "FIRMWARE_UPDATE_ERROR2"
    /\ \/ c = "select" /\ Enter(u, "FIRMWARE1", 2)
       \/ Otherwise(u, c, {"select"})
    /\ OnlyMenu

-----------------------------------------------------------------------------
(* Messages.                                                               *)

MENU_ERROR(u, c) ==
    /\ u.state = "ERROR"
    /\ \/ c = "menu" /\ GoTo(u, "NONE1")
       \/ Otherwise(u, c, {"menu"})
    /\ OnlyMenu

(* It also goes after two seconds. *)
MENU_INFO(u, c) ==
    /\ u.state = "INFO"
    /\ \/ GoTo(u, "NONE1")
       \/ Otherwise(u, c, {"menu"})
    /\ OnlyMenu

HardfilePages == {"SETTINGS_HARDFILE1", "SETTINGS_HARDFILE2", "HARDFILE_SELECTED",
    "SYNTHRDB1", "SYNTHRDB2_1", "SYNTHRDB2", "HARDFILE_EXIT",
    "HARDFILE_CHANGED1", "HARDFILE_CHANGED2"}

(* The pages, what a cursor key opens again as one, or the file selector  *)
(* called from them.                                                       *)
InHardfiles ==
    \/ ui.state \in HardfilePages
    \/ ui.parent \in HardfilePages /\ ui.mask # {}
    \/ ui.state \in {"FILE_SELECT1", "FILE_SELECT2"} /\ fs.select = "HARDFILE_SELECTED"

(* ErrorMessage() and InfoMessage(), called by the floppy code, the SD     *)
(* card front end, the ST's disks, or for the autofire keys: whatever page *)
(* is open is left as it is, and the keyboard goes to the core again.      *)
Message ==
    /\ \E kind \in {"ERROR", "INFO"} :
            /\ GoTo(ui, kind)
            /\ osd' = IF kind = "INFO" /\ ui.state = "INFO" THEN osd ELSE "message"
    /\ lost' = (lost \/ InHardfiles)
    /\ Effect
    /\ UNCHANGED <<fs, world>>

-----------------------------------------------------------------------------
(* HandleUI() and the system.                                              *)

Machine(u, c) ==
    \/ MENU_MAIN1(u) \/ MENU_MAIN2(u, c) \/ MENU_FILE_SELECTED(u)
    \/ MENU_MAIN2_1(u) \/ MENU_MAIN2_2(u, c)
    \/ MENU_MISC1(u) \/ MENU_MISC2(u, c) \/ MENU_ABOUT1(u) \/ MENU_ABOUT2(u, c)
    \/ MENU_LOADCONFIG_1(u) \/ MENU_LOADCONFIG_2(u, c)
    \/ MENU_SAVECONFIG_1(u) \/ MENU_SAVECONFIG_2(u, c)
    \/ MENU_RESET1(u) \/ MENU_RESET2(u, c)
    \/ MENU_SETTINGS_CHIPSET1(u) \/ MENU_SETTINGS_CHIPSET2(u, c)
    \/ MENU_SETTINGS_MEMORY1(u) \/ MENU_SETTINGS_MEMORY2(u, c)
    \/ MENU_SETTINGS_VIDEO1(u) \/ MENU_SETTINGS_VIDEO2(u, c)
    \/ MENU_ROMFILE_SELECTED(u) \/ MENU_ROMFILE_SELECTED2(u, c)
    \/ MENU_SETTINGS_HARDFILE1(u) \/ MENU_SETTINGS_HARDFILE2(u, c)
    \/ MENU_HARDFILE_SELECTED(u) \/ MENU_SYNTHRDB1(u) \/ MENU_SYNTHRDB2(u, c)
    \/ MENU_HARDFILE_EXIT(u) \/ MENU_HARDFILE_CHANGED1(u) \/ MENU_HARDFILE_CHANGED2(u, c)
    \/ MENU_ARCHIE_MAIN1(u) \/ MENU_ARCHIE_MAIN2(u, c) \/ MENU_ARCHIE_MAIN_FILE_SELECTED(u)
    \/ MENU_8BIT_MAIN1(u) \/ MENU_8BIT_MAIN2(u, c) \/ MENU_8BIT_MAIN_SELECTED(u)
    \/ MENU_8BIT_SYSTEM1(u) \/ MENU_8BIT_SYSTEM2(u, c)
    \/ MENU_MIST_MAIN1(u) \/ MENU_MIST_MAIN2(u, c) \/ MENU_MIST_MAIN_FILE_SELECTED(u)
    \/ MENU_MIST_STORAGE1(u) \/ MENU_MIST_STORAGE2(u, c)
    \/ MENU_MIST_STORAGE_FILE_SELECTED(u)
    \/ MENU_MIST_SYSTEM1(u) \/ MENU_MIST_SYSTEM2(u, c) \/ MENU_MIST_SYSTEM_FILE_SELECTED(u)
    \/ MENU_MIST_VIDEO1(u) \/ MENU_MIST_VIDEO2(u, c)
    \/ MENU_MIST_VIDEO_ADJUST1(u) \/ MENU_MIST_VIDEO_ADJUST2(u, c)

Shared(u, c) ==
    \/ MENU_NONE1(u) \/ MENU_NONE2(u, c)
    \/ MENU_FILE_SELECT1(u) \/ MENU_FILE_SELECT2(u, c)
    \/ MENU_FIRMWARE1(u) \/ MENU_FIRMWARE2(u, c) \/ MENU_FIRMWARE_CORE_FILE_SELECTED(u)
    \/ MENU_FIRMWARE_UPDATE1(u) \/ MENU_FIRMWARE_UPDATE2(u, c)
    \/ MENU_FIRMWARE_UPDATING1(u) \/ MENU_FIRMWARE_UPDATING2(u)
    \/ MENU_FIRMWARE_UPDATE_ERROR1(u) \/ MENU_FIRMWARE_UPDATE_ERROR2(u, c)
    \/ MENU_ERROR(u, c) \/ MENU_INFO(u, c)

HandleUI(c) == Machine(Moved(c), c) \/ Shared(Moved(c), c)

ASSUME SavedAssumption == InitSaved \in [Slots -> Config \cup {NoConfig}]

(* Booted with a configuration that has the IDE interface on. *)
Init ==
    /\ core \in Cores /\ mmc \in BOOLEAN /\ (~mmc => core \in UsbCores)
    /\ ui = [state |-> "NONE1", parent |-> "NONE1", sub |-> 0, mask |-> {}]
    /\ osd = "off"
    /\ fs = [ptr |-> "", buffer |-> "", list |-> "", select |-> "NONE1",
             cancel |-> "NONE1"]
    /\ saved = InitSaved
    /\ config = [Defaults EXCEPT !.ide = TRUE,
                                 !.hardfile = [i \in Units |-> Opened(@[i])]]
    /\ t_hardfile = config.hardfile
    /\ hdf = [i \in Units |-> OpenedAs(config.hardfile[i])]
    /\ drives = 1
    /\ disks = [amiga |-> {}, st |-> {}, archie |-> {}]
    /\ st = [direct |-> FALSE, cart |-> FALSE]
    /\ effects = 0 /\ lost = FALSE

(* No key is pressed while the page that was left is still being closed.   *)
(* The mask and the parent of that page are still there, and a cursor key  *)
(* would open it again.                                                    *)
Patient(c) == ui.state = "NONE1" => c = "none"

Others == Message \/ EjectAllFloppies

Next == (\E c \in Keys : Patient(c) /\ HandleUI(c)) \/ Others

NextHasty == (\E c \in Keys : HandleUI(c)) \/ Others

(* A user who wants to leave: ESC, and the row under the cursor where the  *)
(* page does not know ESC.                                                 *)
Leaving ==
    \/ HandleUI("none")
    \/ Patient("menu") /\ HandleUI("menu")
    \/ ui.state \in {"FIRMWARE_UPDATE2", "FIRMWARE_UPDATE_ERROR2"} /\ HandleUI("select")

(* The main loop never stops calling HandleUI(), whatever the user does.   *)
Fairness == WF_vars(Leaving)

Spec == Init /\ [][Next]_vars /\ Fairness
SpecHasty == Init /\ [][NextHasty]_vars

-----------------------------------------------------------------------------
(* Properties.                                                             *)

(* The machine's disks, the configuration and the menu are what their      *)
(* variables can hold.                                                     *)
TypeOK ==
    /\ core \in Cores /\ mmc \in BOOLEAN
    /\ ui.sub \in 0 .. 7 /\ ui.mask \subseteq 0 .. 7
    /\ osd \in {"off", "menu", "message"}
    /\ fs.ptr \in Exts \cup {"", "ext"} /\ fs.buffer \in Exts \cup {""}
    /\ fs.list \in Exts \cup {""}
    /\ config \in Config
    /\ t_hardfile \in [Units -> Hardfile]
    /\ saved \in [Slots -> Config \cup {NoConfig}]
    /\ DOMAIN hdf = Units /\ \A i \in Units : hdf[i] \in Kinds \X (Names \cup {"HARDFILE"})
    /\ drives \in 0 .. 3
    /\ disks.amiga \subseteq 0 .. 3 /\ disks.st \subseteq 0 .. 3 /\ disks.archie \subseteq {0, 1}
    /\ st \in [direct : BOOLEAN, cart : BOOLEAN]
    /\ effects \in 0 .. MaxEffects /\ lost \in BOOLEAN

(* Something is shown as long as a page or a message is open, and nothing  *)
(* when the menu is closed, though pages are left from many places and     *)
(* three of them take the display away themselves (menu.c:330-343).        *)
MenuShown ==
    /\ ui.state = "NONE2" => osd = "off"
    /\ ui.state \notin {"NONE1", "NONE2"} => osd # "off"

(* The page of the hard disks changes the configuration at once and opens  *)
(* the disks only when the user agrees to a reset (menu.c:2236-2280): when *)
(* the menu is closed OpenHardfile() has last been called with the         *)
(* configuration as it is, unless a message took the page away.            *)
HardfilesAsOpened ==
    ui.state = "NONE2" /\ ~lost =>
        \A i \in Units : OpenedAs(config.hardfile[i]) = hdf[i]

(* The file selector shows files of the kind that was asked for, whichever *)
(* page and whichever core's page used it before (menu.c:149-188).         *)
ListAsAsked ==
    ui.state \in {"FILE_SELECT1", "FILE_SELECT2"} => fs.list = Wanted

(* A user who presses nothing but ESC, and the row under the cursor of a   *)
(* page that does not know ESC, gets out of the menu from everywhere.      *)
EscLeaves == <>[][Leaving]_vars => []<>(ui.state = "NONE2")
=============================================================================
