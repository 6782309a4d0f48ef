----------------------------- MODULE MenuProofs -----------------------------
(* Proofs about Menu: what is on the display fits the state of the menu,   *)
(* the configuration fits the hard disks that are open, and the list of    *)
(* the file selector fits what was asked for.                              *)
EXTENDS Menu, WellFoundedInduction, TLAPS

Fields == {"state", "parent", "sub", "mask"}

(* The cursor record in the middle of HandleUI(), on an open page or not:  *)
(* no page draws itself as the closed menu.                                *)
Page(u) == DOMAIN u = Fields /\ u.parent # "NONE2"

(* Nor does any page call the file selector for the closed menu. *)
Selector(f) ==
    /\ DOMAIN f = {"ptr", "buffer", "list", "select", "cancel"}
    /\ f.select # "NONE2" /\ f.cancel # "NONE2"

(* What every state of an open page or message does: it leads to another   *)
(* one or to NONE1, which closes the menu, and only on the way to NONE1    *)
(* does it take the display away itself.                                   *)
Goes == Page(ui') /\ ui'.state # "NONE2"

Kept ==
    /\ osd' = osd \/ (osd' = "off" /\ ui'.state = "NONE1")
    /\ Selector(fs')

Turned(u) ==
    /\ u.state \notin {"NONE1", "NONE2"}
    /\ Goes /\ Kept

(* MenuShown alone is not inductive.  A cursor key goes from any state to  *)
(* the parent of the page that was drawn last, by way of the mask: the     *)
(* closed menu must have no mask, and be nobody's parent.                  *)
ShownInv ==
    /\ Page(ui) /\ Selector(fs)
    /\ ui.state = "NONE2" => osd = "off" /\ ui.mask = {}
    /\ ui.state \notin {"NONE1", "NONE2"} => osd # "off"

LEMMA ShownInit == Init => ShownInv
<1> SUFFICES ASSUME Init PROVE ShownInv
  OBVIOUS
<1>1. /\ ui = [state |-> "NONE1", parent |-> "NONE1", sub |-> 0, mask |-> {}]
      /\ osd = "off"
      /\ fs = [ptr |-> "", buffer |-> "", list |-> "", select |-> "NONE1",
               cancel |-> "NONE1"]
  BY DEF Init
<1>2. Page(ui) /\ Selector(fs)
  BY <1>1 DEF Page, Selector, Fields
<1>3. QED
  BY <1>1, <1>2 DEF ShownInv

-----------------------------------------------------------------------------
(* The pages.                                                              *)

LEMMA ByGoTo ==
  ASSUME NEW u, Page(u), NEW s, s # "NONE2", GoTo(u, s)
  PROVE  Goes
  BY DEF Goes, Page, Fields, GoTo

LEMMA ByEnter ==
  ASSUME NEW u, Page(u), NEW s, s # "NONE2", NEW r, Enter(u, s, r)
  PROVE  Goes
  BY DEF Goes, Page, Fields, Enter

LEMMA ByStay ==
  ASSUME NEW u, Page(u), u.state # "NONE2", Stay(u)
  PROVE  Goes
  BY DEF Goes, Stay

LEMMA ByDraw ==
  ASSUME NEW u, NEW p, NEW s, NEW rows, p # "NONE2", s # "NONE2",
         Draw(u, p, s, rows)
  PROVE  Goes
  BY DEF Goes, Page, Fields, Draw

LEMMA ByUnchanged ==
  ASSUME Selector(fs), UNCHANGED <<osd, fs>>
  PROVE  Kept
  BY DEF Kept

LEMMA ByOnlyMenu ==
  ASSUME Selector(fs), OnlyMenu
  PROVE  Kept
  BY ByUnchanged DEF OnlyMenu

LEMMA BySelectFile ==
  ASSUME NEW u, Page(u), NEW ptr, NEW buffer, NEW select, NEW cancel,
         select # "NONE2", cancel # "NONE2", UNCHANGED osd,
         SelectFile(u, ptr, buffer, select, cancel)
  PROVE  Goes /\ Kept
<1>1. Goes
  BY ByGoTo DEF SelectFile
<1>2. Kept
  BY DEF SelectFile, Kept, Selector
<1>3. QED
  BY <1>1, <1>2

LEMMA ByChoose ==
  ASSUME NEW u, Page(u), NEW ext, NEW select, NEW cancel,
         select # "NONE2", cancel # "NONE2", Choose(u, ext, select, cancel)
  PROVE  Goes /\ Kept
  BY BySelectFile DEF Choose

(* The pages of the machines. *)
LEMMA MachinePages ==
  ASSUME NEW u, NEW c, Page(u), Selector(fs), Machine(u, c)
  PROVE  Turned(u)
<1>1. CASE MENU_MAIN1(u)
  BY <1>1, ByDraw, ByOnlyMenu
  DEF MENU_MAIN1, Turned
<1>2. CASE MENU_MAIN2(u, c)
  BY <1>2, ByChoose, ByEnter, ByGoTo, ByOnlyMenu, ByStay, ByUnchanged
  DEF MENU_MAIN2, ChangeDrives, Eject, EnterHardfiles, Otherwise, Turned
<1>3. CASE MENU_FILE_SELECTED(u)
  BY <1>3, ByEnter, ByUnchanged
  DEF MENU_FILE_SELECTED, Insert, Turned
<1>4. CASE MENU_MAIN2_1(u)
  BY <1>4, ByDraw, ByOnlyMenu
  DEF MENU_MAIN2_1, Turned
<1>5. CASE MENU_MAIN2_2(u, c)
  BY <1>5, ByEnter, ByGoTo, ByOnlyMenu, ByStay
  DEF MENU_MAIN2_2, Otherwise, SettingsPage, Turned
<1>6. CASE MENU_MISC1(u)
  BY <1>6, ByDraw, ByOnlyMenu
  DEF MENU_MISC1, Turned
<1>7. CASE MENU_MISC2(u, c)
  BY <1>7, ByEnter, ByGoTo, ByOnlyMenu, ByStay
  DEF MENU_MISC2, Otherwise, Turned
<1>8. CASE MENU_ABOUT1(u)
  BY <1>8, ByDraw, ByOnlyMenu
  DEF MENU_ABOUT1, Turned
<1>9. CASE MENU_ABOUT2(u, c)
  BY <1>9, ByEnter, ByOnlyMenu, ByStay
  DEF MENU_ABOUT2, Otherwise, Turned
<1>10. CASE MENU_LOADCONFIG_1(u)
  BY <1>10, ByDraw, ByOnlyMenu
  DEF MENU_LOADCONFIG_1, Turned
<1>11. CASE MENU_LOADCONFIG_2(u, c)
  BY <1>11
  DEF MENU_LOADCONFIG_2, Otherwise, Turned, Goes, Kept, Page, Fields,
      GoTo, Enter, Stay, OnlyMenu, Selector
<1>12. CASE MENU_SAVECONFIG_1(u)
  BY <1>12, ByDraw, ByOnlyMenu
  DEF MENU_SAVECONFIG_1, Turned
<1>13. CASE MENU_SAVECONFIG_2(u, c)
  BY <1>13, ByEnter, ByGoTo, ByOnlyMenu, ByStay, ByUnchanged
  DEF MENU_SAVECONFIG_2, Otherwise, SaveConfiguration, Turned
<1>14. CASE MENU_RESET1(u)
  BY <1>14, ByDraw, ByOnlyMenu
  DEF MENU_RESET1, Turned
<1>15. CASE MENU_RESET2(u, c)
  BY <1>15, ByEnter, ByGoTo, ByOnlyMenu, ByStay, ByUnchanged
  DEF MENU_RESET2, Otherwise, Turned
<1>16. CASE MENU_SETTINGS_CHIPSET1(u)
  BY <1>16, ByDraw, ByOnlyMenu
  DEF MENU_SETTINGS_CHIPSET1, Page, Turned
<1>17. CASE MENU_SETTINGS_CHIPSET2(u, c)
  BY <1>17, ByEnter, ByGoTo, ByOnlyMenu, ByStay
  DEF MENU_SETTINGS_CHIPSET2, Otherwise, Turned
<1>18. CASE MENU_SETTINGS_MEMORY1(u)
  BY <1>18, ByDraw, ByOnlyMenu
  DEF MENU_SETTINGS_MEMORY1, Turned
<1>19. CASE MENU_SETTINGS_MEMORY2(u, c)
  BY <1>19, ByChoose, ByEnter, ByGoTo, ByOnlyMenu, ByStay
  DEF MENU_SETTINGS_MEMORY2, Otherwise, Turned
<1>20. CASE MENU_SETTINGS_VIDEO1(u)
  BY <1>20, ByDraw, ByOnlyMenu
  DEF MENU_SETTINGS_VIDEO1, Turned
<1>21. CASE MENU_SETTINGS_VIDEO2(u, c)
  BY <1>21, ByEnter, ByGoTo, ByOnlyMenu, ByStay
  DEF MENU_SETTINGS_VIDEO2, Otherwise, Turned
<1>22. CASE MENU_ROMFILE_SELECTED(u)
  BY <1>22, ByDraw, ByOnlyMenu
  DEF MENU_ROMFILE_SELECTED, Turned
<1>23. CASE MENU_ROMFILE_SELECTED2(u, c)
  BY <1>23
  DEF MENU_ROMFILE_SELECTED2, Otherwise, Turned, Goes, Kept, Page, Fields,
      GoTo, Enter, Stay, OnlyMenu, Selector
<1>24. CASE MENU_SETTINGS_HARDFILE1(u)
  BY <1>24, ByDraw, ByOnlyMenu
  DEF MENU_SETTINGS_HARDFILE1, Turned
<1>25. CASE MENU_SETTINGS_HARDFILE2(u, c)
  BY <1>25, ByChoose, ByEnter, ByGoTo, ByOnlyMenu, ByStay, ByUnchanged
  DEF MENU_SETTINGS_HARDFILE2, Change, Otherwise, Turned
<1>26. CASE MENU_HARDFILE_SELECTED(u)
  BY <1>26, ByEnter, ByUnchanged
  DEF MENU_HARDFILE_SELECTED, Change, Turned
<1>27. CASE MENU_SYNTHRDB1(u)
  BY <1>27, ByDraw, ByOnlyMenu
  DEF MENU_SYNTHRDB1, Turned
<1>28. CASE MENU_SYNTHRDB2(u, c)
  BY <1>28, ByGoTo, ByOnlyMenu, ByStay
  DEF MENU_SYNTHRDB2, Otherwise, Turned
<1>29. CASE MENU_HARDFILE_EXIT(u)
  BY <1>29, ByEnter, ByOnlyMenu
  DEF MENU_HARDFILE_EXIT, Turned
<1>30. CASE MENU_HARDFILE_CHANGED1(u)
  BY <1>30, ByDraw, ByOnlyMenu
  DEF MENU_HARDFILE_CHANGED1, Turned
<1>31. CASE MENU_HARDFILE_CHANGED2(u, c)
  BY <1>31, ByEnter, ByGoTo, ByOnlyMenu, ByStay, ByUnchanged
  DEF MENU_HARDFILE_CHANGED2, OpenHardfiles, Otherwise, Restore, Turned
<1>32. CASE MENU_ARCHIE_MAIN1(u)
  BY <1>32, ByDraw, ByOnlyMenu
  DEF MENU_ARCHIE_MAIN1, Turned
<1>33. CASE MENU_ARCHIE_MAIN2(u, c)
  BY <1>33, ByChoose, ByEnter, ByGoTo, ByOnlyMenu, ByStay, ByUnchanged
  DEF MENU_ARCHIE_MAIN2, Otherwise, Toggle, Turned
<1>34. CASE MENU_ARCHIE_MAIN_FILE_SELECTED(u)
  BY <1>34, ByGoTo, ByOnlyMenu, ByUnchanged
  DEF MENU_ARCHIE_MAIN_FILE_SELECTED, Fill, Turned
<1>35. CASE MENU_8BIT_MAIN1(u)
  BY <1>35, ByDraw, ByOnlyMenu
  DEF MENU_8BIT_MAIN1, Turned
<1>36. CASE MENU_8BIT_MAIN2(u, c)
  BY <1>36, ByChoose, ByEnter, ByGoTo, ByOnlyMenu, BySelectFile, ByStay,
     ByUnchanged
  DEF MENU_8BIT_MAIN2, Otherwise, Turned
<1>37. CASE MENU_8BIT_MAIN_SELECTED(u)
  BY <1>37, ByGoTo, ByOnlyMenu
  DEF MENU_8BIT_MAIN_SELECTED, Turned
<1>38. CASE MENU_8BIT_SYSTEM1(u)
  BY <1>38, ByDraw, ByOnlyMenu
  DEF MENU_8BIT_SYSTEM1, Turned
<1>39. CASE MENU_8BIT_SYSTEM2(u, c)
  BY <1>39, ByEnter, ByGoTo, ByOnlyMenu, ByStay
  DEF MENU_8BIT_SYSTEM2, Otherwise, Turned
<1>40. CASE MENU_MIST_MAIN1(u)
  BY <1>40, ByDraw, ByOnlyMenu
  DEF MENU_MIST_MAIN1, Turned
<1>41. CASE MENU_MIST_MAIN2(u, c)
  BY <1>41, ByChoose, ByEnter, ByGoTo, ByOnlyMenu, ByStay, ByUnchanged
  DEF MENU_MIST_MAIN2, MistPage, Otherwise, Toggle, Turned
<1>42. CASE MENU_MIST_MAIN_FILE_SELECTED(u)
  BY <1>42, ByGoTo, ByUnchanged
  DEF MENU_MIST_MAIN_FILE_SELECTED, Fill, Turned
<1>43. CASE MENU_MIST_STORAGE1(u)
  BY <1>43, ByDraw, ByOnlyMenu
  DEF MENU_MIST_STORAGE1, Turned
<1>44. CASE MENU_MIST_STORAGE2(u, c)
  BY <1>44, ByChoose, ByEnter, ByGoTo, ByOnlyMenu, ByStay, ByUnchanged
  DEF MENU_MIST_STORAGE2, Otherwise, Toggle, Turned
<1>45. CASE MENU_MIST_STORAGE_FILE_SELECTED(u)
  BY <1>45, ByGoTo, ByUnchanged
  DEF MENU_MIST_STORAGE_FILE_SELECTED, Fill, Turned
<1>46. CASE MENU_MIST_SYSTEM1(u)
  BY <1>46, ByDraw, ByOnlyMenu
  DEF MENU_MIST_SYSTEM1, Turned
<1>47. CASE MENU_MIST_SYSTEM2(u, c)
  BY <1>47, ByChoose, ByEnter, ByGoTo, ByOnlyMenu, ByStay, ByUnchanged
  DEF MENU_MIST_SYSTEM2, Cartridge, Otherwise, Turned
<1>48. CASE MENU_MIST_SYSTEM_FILE_SELECTED(u)
  BY <1>48, ByGoTo, ByOnlyMenu, ByUnchanged
  DEF MENU_MIST_SYSTEM_FILE_SELECTED, Cartridge, Turned
<1>49. CASE MENU_MIST_VIDEO1(u)
  BY <1>49, ByDraw, ByOnlyMenu
  DEF MENU_MIST_VIDEO1, Turned
<1>50. CASE MENU_MIST_VIDEO2(u, c)
  BY <1>50, ByEnter, ByGoTo, ByOnlyMenu, ByStay
  DEF MENU_MIST_VIDEO2, Otherwise, Turned
<1>51. CASE MENU_MIST_VIDEO_ADJUST1(u)
  BY <1>51, ByDraw, ByOnlyMenu
  DEF MENU_MIST_VIDEO_ADJUST1, Turned
<1>52. CASE MENU_MIST_VIDEO_ADJUST2(u, c)
  BY <1>52, ByEnter, ByGoTo, ByOnlyMenu, ByStay
  DEF MENU_MIST_VIDEO_ADJUST2, Otherwise, Turned
<1>53. QED
  BY <1>1, <1>2, <1>3, <1>4, <1>5, <1>6, <1>7, <1>8, <1>9, <1>10, <1>11,
     <1>12, <1>13, <1>14, <1>15, <1>16, <1>17, <1>18, <1>19, <1>20, <1>21,
     <1>22, <1>23, <1>24, <1>25, <1>26, <1>27, <1>28, <1>29, <1>30, <1>31,
     <1>32, <1>33, <1>34, <1>35, <1>36, <1>37, <1>38, <1>39, <1>40, <1>41,
     <1>42, <1>43, <1>44, <1>45, <1>46, <1>47, <1>48, <1>49, <1>50, <1>51,
     <1>52 DEF Machine

(* The file selector, the pages of the firmware and the messages. *)
LEMMA SharedPages ==
  ASSUME NEW u, NEW c, Page(u), Selector(fs), Shared(u, c),
         u.state \notin {"NONE1", "NONE2"}
  PROVE  Turned(u)
<1>1. CASE MENU_FILE_SELECT1(u)
  BY <1>1, ByGoTo, ByOnlyMenu
  DEF MENU_FILE_SELECT1, Turned
<1>2. CASE MENU_FILE_SELECT2(u, c)
  <2> DEFINE page == [u EXCEPT !.mask = {}]
  <2>1. Page(page) /\ page.state = "FILE_SELECT2"
    BY <1>2 DEF MENU_FILE_SELECT2, Page, Fields
  <2>2. osd' = osd /\ u.state = "FILE_SELECT2"
    BY <1>2 DEF MENU_FILE_SELECT2
  <2>3. CASE Browse(u)
    <3>1. Goes
      BY <2>1, <2>3, ByEnter DEF Browse
    <3>2. Selector(fs')
      BY <2>3 DEF Browse, Selector
    <3>3. QED
      BY <2>2, <3>1, <3>2 DEF Turned, Kept
  <2>4. CASE fs' = fs /\ (GoTo(page, fs.select) \/ GoTo(page, fs.cancel) \/ Stay(page))
    <3>1. Goes
      BY <2>1, <2>4, ByGoTo, ByStay DEF Selector
    <3>2. QED
      BY <2>2, <2>4, <3>1 DEF Turned, Kept
  <2>5. QED
    BY <1>2, <2>3, <2>4 DEF MENU_FILE_SELECT2
<1>3. CASE MENU_FIRMWARE1(u)
  BY <1>3, ByDraw, ByOnlyMenu
  DEF MENU_FIRMWARE1, Turned
<1>4. CASE MENU_FIRMWARE2(u, c)
  <2>1. u.state = "FIRMWARE2"
    BY <1>4 DEF MENU_FIRMWARE2
  <2>2. ASSUME Back(u) PROVE Goes
    BY <2>2, ByEnter DEF Back
  <2>3. CASE Choose(u, "RBF", "FIRMWARE_CORE_FILE_SELECTED", "FIRMWARE1")
    BY <2>1, <2>3, ByChoose DEF Turned
  <2>4. CASE /\ \/ Back(u) \/ Stay(u)
                \/ \E p \in {"FIRMWARE_UPDATE1", "FIRMWARE_UPDATE_ERROR1"} :
                      Enter(u, p, 1)
             /\ OnlyMenu
    BY <2>1, <2>2, <2>4, ByEnter, ByStay, ByOnlyMenu DEF Turned
  <2>5. QED
    BY <1>4, <2>3, <2>4 DEF MENU_FIRMWARE2, Otherwise
<1>5. CASE MENU_FIRMWARE_CORE_FILE_SELECTED(u)
  BY <1>5
  DEF MENU_FIRMWARE_CORE_FILE_SELECTED, Turned, Goes, Kept, Page, Fields,
      GoTo, Enter, Stay, OnlyMenu, Selector
<1>6. CASE MENU_FIRMWARE_UPDATE1(u)
  BY <1>6, ByDraw, ByOnlyMenu
  DEF MENU_FIRMWARE_UPDATE1, Turned
<1>7. CASE MENU_FIRMWARE_UPDATE2(u, c)
  BY <1>7, ByEnter, ByOnlyMenu, ByStay
  DEF MENU_FIRMWARE_UPDATE2, Otherwise, Turned
<1>8. CASE MENU_FIRMWARE_UPDATING1(u)
  BY <1>8, ByDraw, ByOnlyMenu
  DEF MENU_FIRMWARE_UPDATING1, Turned
<1>9. CASE MENU_FIRMWARE_UPDATING2(u)
  BY <1>9, ByEnter, ByOnlyMenu
  DEF MENU_FIRMWARE_UPDATING2, Turned
<1>10. CASE MENU_FIRMWARE_UPDATE_ERROR1(u)
  BY <1>10, ByDraw, ByOnlyMenu
  DEF MENU_FIRMWARE_UPDATE_ERROR1, Turned
<1>11. CASE MENU_FIRMWARE_UPDATE_ERROR2(u, c)
  BY <1>11, ByEnter, ByOnlyMenu, ByStay
  DEF MENU_FIRMWARE_UPDATE_ERROR2, Otherwise, Turned
<1>12. CASE MENU_ERROR(u, c)
  BY <1>12, ByGoTo, ByOnlyMenu, ByStay
  DEF MENU_ERROR, Otherwise, Turned
<1>13. CASE MENU_INFO(u, c)
  BY <1>13, ByGoTo, ByOnlyMenu, ByStay
  DEF MENU_INFO, Otherwise, Turned
<1>14. QED
  BY <1>1, <1>2, <1>3, <1>4, <1>5, <1>6, <1>7, <1>8, <1>9, <1>10, <1>11,
     <1>12, <1>13 DEF Shared, MENU_NONE1, MENU_NONE2

-----------------------------------------------------------------------------
(* HandleUI() and what else there is.                                      *)

LEMMA CursorKeys ==
  ASSUME ShownInv, NEW c, Patient(c)
  PROVE  /\ Page(Moved(c))
         /\ Moved(c).state # "NONE2" \/ Moved(c) = ui
         /\ Moved(c).state = "NONE1" => ui.state = "NONE1" \/ osd # "off"
         /\ ui.state \in {"NONE1", "NONE2"} => Moved(c) = ui
<1>1. /\ Moved(c) = ui
         \/ \E r : Moved(c) = [ui EXCEPT !.sub = r, !.state = ui.parent]
      /\ ui.mask = {} => Moved(c) = ui
  BY DEF Moved
<1>2. ui.state \in {"NONE1", "NONE2"} => Moved(c) = ui
  BY <1>1 DEF ShownInv, Moved, Patient
<1>3. QED
  BY <1>1, <1>2 DEF ShownInv, Page, Fields

LEMMA ShownHandleUI ==
  ASSUME ShownInv, NEW c, Patient(c), HandleUI(c)
  PROVE  ShownInv'
<1> DEFINE u == Moved(c)
<1>1. /\ Page(u) /\ Selector(fs)
      /\ u.state # "NONE2" \/ u = ui
      /\ ui.state \in {"NONE1", "NONE2"} => u = ui
  BY CursorKeys DEF ShownInv
<1>2. ASSUME Turned(u) PROVE ShownInv'
  <2>1. osd # "off"
    BY <1>1, <1>2 DEF Turned, ShownInv
  <2>2. QED
    BY <1>1, <1>2, <2>1 DEF Turned, Goes, Kept, ShownInv
<1>3. CASE Machine(u, c)
  BY <1>1, <1>2, <1>3, MachinePages
<1>4. CASE Shared(u, c) /\ u.state \notin {"NONE1", "NONE2"}
  BY <1>1, <1>2, <1>4, SharedPages
<1>5. CASE MENU_NONE1(u)
  BY <1>1, <1>5 DEF MENU_NONE1, ShownInv, Page, Fields
<1>6. CASE MENU_NONE2(u, c)
  <2>1. u = ui /\ ui.state = "NONE2" /\ fs' = fs
    BY <1>1, <1>6 DEF MENU_NONE2, ShownInv
  <2>2. CASE Enter(u, MainPage, 0) /\ osd' = "menu"
    <3>1. MainPage \notin {"NONE1", "NONE2"}
      BY <2>2 DEF MainPage
    <3>2. Goes
      BY <1>1, <2>2, <3>1, ByEnter
    <3>3. QED
      BY <1>1, <2>1, <2>2, <3>2 DEF Goes, ShownInv
  <2>3. CASE Stay(u) /\ osd' = osd
    BY <2>1, <2>3 DEF Stay, ShownInv
  <2>4. QED
    BY <1>6, <2>2, <2>3 DEF MENU_NONE2, Otherwise
<1>7. CASE Shared(u, c) /\ u.state \in {"NONE1", "NONE2"}
  BY <1>5, <1>6, <1>7
  DEF Shared, MENU_FILE_SELECT1, MENU_FILE_SELECT2, MENU_FIRMWARE1,
      MENU_FIRMWARE2, MENU_FIRMWARE_CORE_FILE_SELECTED,
      MENU_FIRMWARE_UPDATE1, MENU_FIRMWARE_UPDATE2,
      MENU_FIRMWARE_UPDATING1, MENU_FIRMWARE_UPDATING2,
      MENU_FIRMWARE_UPDATE_ERROR1, MENU_FIRMWARE_UPDATE_ERROR2,
      MENU_ERROR, MENU_INFO
<1>8. QED
  BY <1>3, <1>4, <1>7 DEF HandleUI

LEMMA ShownOthers ==
  ASSUME ShownInv, Others
  PROVE  ShownInv'
<1>1. CASE Message
  BY <1>1 DEF Message, GoTo, ShownInv, Page, Fields
<1>2. CASE EjectAllFloppies
  BY <1>2 DEF EjectAllFloppies, ShownInv
<1>3. QED
  BY <1>1, <1>2 DEF Others

LEMMA ShownNext == ShownInv /\ [Next]_vars => ShownInv'
<1>1. ASSUME ShownInv, UNCHANGED vars PROVE ShownInv'
  BY <1>1 DEF ShownInv, vars
<1>2. QED
  BY <1>1, ShownHandleUI, ShownOthers DEF Next

(* Whatever pages the user walks through, in whatever order, and whatever  *)
(* messages come: an open menu or message is on the display, and nothing   *)
(* stays there when the menu is closed, for every core, config string and  *)
(* configuration (HandleUI() in menu.c).                                   *)
THEOREM ShownCorrect == Spec => []MenuShown
<1>1. ShownInv => MenuShown
  BY DEF ShownInv, MenuShown
<1>2. QED
  BY <1>1, ShownInit, ShownNext, PTL DEF Spec

-----------------------------------------------------------------------------
(* The hard disks, the lists and the types.                                *)

Rows == 0 .. 7
Selecting == {"FILE_SELECT1", "FILE_SELECT2"}
LastRow == IF HasFile THEN Len(Strings) ELSE Len(Strings) - 1

(* Which rows a state may be in: a file is selected for the drive of the   *)
(* row that asked for it, and the page of an 8 bit core has a row per      *)
(* string.                                                                 *)
RowFits(s, r) ==
    /\ s = "FILE_SELECTED" => r \in 0 .. 3
    /\ s = "MIST_STORAGE_FILE_SELECTED" => DiskOf(r) \in 0 .. 3
    /\ s \in {"8BIT_MAIN1", "8BIT_MAIN2"} => r = 0 \/ r <= LastRow

NoParents == Selecting \cup
    {"FILE_SELECTED", "MIST_STORAGE_FILE_SELECTED", "8BIT_MAIN2"}

(* The cursor, and what it may become when a key moves it to the parent or *)
(* the selector comes back to the page that called it.                     *)
CursorInv(u) ==
    /\ DOMAIN u = Fields /\ u.sub \in Rows /\ u.mask \subseteq Rows
    /\ u.parent \notin NoParents
    /\ u.parent = "8BIT_MAIN1" => \A r \in u.mask : r <= LastRow
    /\ RowFits(u.state, u.sub)
    /\ u.state \in Selecting =>
          RowFits(fs.select, u.sub) /\ RowFits(fs.cancel, u.sub)

(* The types of everything but the cursor. *)
WorldTypeOK ==
    /\ core \in Cores /\ mmc \in BOOLEAN
    /\ osd \in {"off", "menu", "message"}
    /\ DOMAIN fs = {"ptr", "buffer", "list", "select", "cancel"}
    /\ fs.ptr \in Exts \cup {"", "ext"} /\ fs.buffer \in Exts \cup {""}
    /\ fs.list \in Exts \cup {""}
    /\ config \in Config
    /\ t_hardfile \in [Units -> Hardfile]
    /\ saved \in [Slots -> Config \cup {NoConfig}]
    /\ DOMAIN hdf = Units
    /\ \A i \in Units : hdf[i] \in Kinds \X (Names \cup {"HARDFILE"})
    /\ drives \in 0 .. 3
    /\ DOMAIN disks = {"amiga", "st", "archie"}
    /\ disks.amiga \subseteq 0 .. 3 /\ disks.st \subseteq 0 .. 3
    /\ disks.archie \subseteq {0, 1}
    /\ st \in [direct : BOOLEAN, cart : BOOLEAN]
    /\ effects \in 0 .. MaxEffects /\ lost \in BOOLEAN

(* Hard disks as they were opened. *)
AsOpened(hs) == \A i \in Units : OpenedAs(hs[i]) = hdf[i]

(* The menu is at the hard disks, or in the file selector for them. *)
Inside(u) ==
    \/ u.state \in HardfilePages
    \/ u.state \in Selecting /\ fs.select \in HardfilePages

SelectorInv ==
    \/ fs.select = "HARDFILE_SELECTED" /\ fs.cancel = "SETTINGS_HARDFILE1"
    \/ fs.select \notin HardfilePages /\ fs.cancel \notin HardfilePages

(* HardfilesAsOpened alone is not inductive: while the menu is at the hard *)
(* disks it is their copy that is as they were opened, and a cursor key    *)
(* comes back to them, or leaves them, by way of the parent.               *)
HardInv(u) ==
    /\ SelectorInv
    /\ Inside(u) =>
          \/ u.mask = {}
          \/ u.parent \in HardfilePages
          \/ u.state = "SETTINGS_HARDFILE1" /\ (~lost => AsOpened(config.hardfile))
    /\ ~lost =>
          /\ Inside(u) => AsOpened(t_hardfile)
          /\ ~Inside(u) => AsOpened(config.hardfile)
          /\ (u.parent \in HardfilePages /\ u.mask # {} /\ u.state # "NONE1")
                => AsOpened(t_hardfile)

(* All strings that ask for files ask for the same kind. *)
OneList ==
    \A i, j \in DOMAIN Strings :
        Strings[i].kind \in {"F", "S"} /\ Strings[j].kind \in {"F", "S"}
            => Strings[i].ext = Strings[j].ext

ListInv ==
    /\ fs.list = Wanted
    /\ fs.ptr = "ext" => \E i \in DOMAIN Strings :
            Strings[i].kind \in {"F", "S"} /\ fs.buffer = Strings[i].ext

MenuInv(u) ==
    WorldTypeOK /\ CursorInv(u) /\ HardInv(u) /\ (OneList => ListInv)

LEMMA LeastIn ==
  ASSUME NEW S, S \subseteq Nat, S # {}
  PROVE  \E x \in S : \A y \in S : x <= y
<1> DEFINE R == {ss \in Nat \X Nat : ss[1] < ss[2]}
<1>1. PICK i \in S : \A j \in S : ~ (<<j, i>> \in R)
  <2>1. IsWellFoundedOn(R, Nat)
    BY NatLessThanWellFounded, Zenon DEF OpToRel
  <2> HIDE DEF R
  <2>2. QED
    BY <2>1, WFMin
<1>2. ASSUME NEW j \in S PROVE i <= j
  <2>1. i \in Nat /\ j \in Nat /\ ~ (<<j, i>> \in R)
    BY <1>1
  <2>2. QED
    BY <2>1
<1>3. QED
  BY <1>2

(* The next row of the mask is one of its rows. *)
LEMMA RowsIn ==
  ASSUME NEW S, S \subseteq Rows, S # {}
  PROVE  Min(S) \in S /\ Max(S) \in S
<1>1. Min(S) \in S
  <2>1. S \subseteq Nat
    BY DEF Rows
  <2>2. \E x \in S : \A y \in S : x <= y
    BY <2>1, LeastIn
  <2> QED
    BY <2>2 DEF Min
<1>2. \E x \in S : \A y \in S : x >= y
  <2> DEFINE T == {7 - x : x \in S}
  <2>1. T \subseteq Nat /\ T # {}
    <3>1. \A x \in S : 7 - x \in Nat
      BY DEF Rows
    <3> QED
      BY <3>1
  <2>2. PICK t \in T : \A y \in T : t <= y
    <3> HIDE DEF T
    <3> QED
      BY <2>1, LeastIn
  <2>3. PICK x \in S : t = 7 - x
    OBVIOUS
  <2>4. ASSUME NEW y \in S PROVE x >= y
    <3>1. 7 - y \in T
      OBVIOUS
    <3>2. 7 - x <= 7 - y
      BY <2>2, <2>3, <3>1
    <3> QED
      BY <3>2 DEF Rows
  <2> QED
    BY <2>4
<1> QED
  BY <1>1, <1>2 DEF Max

-----------------------------------------------------------------------------
(* What most pages do.                                                     *)

Ordinary(s) ==
    s \notin Selecting \cup HardfilePages \cup
      {"FILE_SELECTED", "MIST_STORAGE_FILE_SELECTED", "8BIT_MAIN1", "8BIT_MAIN2"}

(* The cursor goes to a page with nothing special about it. *)
Turns(u) ==
    /\ DOMAIN ui' = Fields /\ ui'.sub \in Rows /\ ui'.mask \subseteq Rows
    /\ ui'.parent \notin NoParents
    /\ ui'.parent = "8BIT_MAIN1" => \A r \in ui'.mask : r <= LastRow
    /\ Ordinary(ui'.state) \/ ui'.state \in {"8BIT_MAIN1", "8BIT_MAIN2"}
    /\ RowFits(ui'.state, ui'.sub)
    /\ \/ ui'.mask = {}
       \/ ui'.parent \notin HardfilePages
       \/ ui'.parent = u.parent /\ ui'.mask = u.mask

(* Neither the selector nor the hard disks change. *)
Spares ==
    /\ WorldTypeOK' /\ fs' = fs
    /\ UNCHANGED <<t_hardfile, hdf, lost>>
    /\ config'.hardfile = config.hardfile

Apart(u) == u.state \notin HardfilePages \cup Selecting \cup {"NONE1"}

LEMMA TurnFits ==
  ASSUME NEW u, Turns(u)
  PROVE  CursorInv(ui)' /\ ~Inside(ui)'
  BY DEF Turns, Ordinary, CursorInv, RowFits, Inside, Selecting, HardfilePages

LEMMA TurnInv ==
  ASSUME NEW u, MenuInv(u), Apart(u), Turns(u), Spares
  PROVE  MenuInv(ui)'
<1>1. CursorInv(ui)' /\ ~Inside(ui)'
  BY TurnFits
<1>2. ~Inside(u) /\ u.state # "NONE1"
  BY DEF Apart, Inside
<1>3. SelectorInv'
  BY DEF MenuInv, HardInv, SelectorInv, Spares
<1>4. /\ AsOpened(config.hardfile)' <=> AsOpened(config.hardfile)
      /\ AsOpened(t_hardfile)' <=> AsOpened(t_hardfile)
  BY DEF AsOpened, Spares
<1>5. lost' = lost
  BY DEF Spares
<1>6. HardInv(ui)'
  BY <1>1, <1>2, <1>3, <1>4, <1>5 DEF MenuInv, HardInv, Turns
<1>7. OneList => ListInv'
  BY DEF MenuInv, ListInv, Wanted, Spares
<1> QED
  BY <1>1, <1>6, <1>7 DEF MenuInv, Spares

(* The menu is closed with the hard disks as they are configured. *)
LEMMA CloseInv ==
  ASSUME NEW u, MenuInv(u), Turns(u), ui'.state = "NONE1",
         WorldTypeOK', fs' = fs, lost' \/ AsOpened(config.hardfile)'
  PROVE  MenuInv(ui)'
<1>1. CursorInv(ui)' /\ ~Inside(ui)'
  BY TurnFits
<1>2. SelectorInv'
  BY DEF MenuInv, HardInv, SelectorInv
<1>3. HardInv(ui)'
  BY <1>1, <1>2 DEF HardInv
<1>4. OneList => ListInv'
  BY DEF MenuInv, ListInv, Wanted
<1> QED
  BY <1>1, <1>3, <1>4 DEF MenuInv

LEMMA TurnGoTo ==
  ASSUME NEW u, CursorInv(u), NEW s, Ordinary(s), GoTo(u, s)
  PROVE  Turns(u)
  BY DEF Turns, CursorInv, Fields, GoTo, RowFits, Ordinary

LEMMA TurnEnter ==
  ASSUME NEW u, CursorInv(u), NEW s, Ordinary(s), NEW r \in Rows, Enter(u, s, r)
  PROVE  Turns(u)
  BY DEF Turns, CursorInv, Fields, Enter, RowFits, Ordinary

LEMMA TurnStay ==
  ASSUME NEW u, CursorInv(u), Ordinary(u.state), Stay(u)
  PROVE  Turns(u)
  BY DEF Turns, CursorInv, Fields, Stay, RowFits, Ordinary

LEMMA TurnDraw ==
  ASSUME NEW u, CursorInv(u), NEW s, Ordinary(s), NEW p, Ordinary(p),
         NEW rows \in SUBSET Rows, Draw(u, p, s, rows)
  PROVE  Turns(u)
  BY DEF Turns, CursorInv, Fields, Draw, Ordinary, NoParents, RowFits

LEMMA SpareOnly ==
  ASSUME WorldTypeOK, OnlyMenu
  PROVE  Spares
  BY DEF Spares, WorldTypeOK, OnlyMenu, world

LEMMA PlainInv ==
  ASSUME NEW u, MenuInv(u), Apart(u), Turns(u), OnlyMenu
  PROVE  MenuInv(ui)'
  BY TurnInv, SpareOnly DEF MenuInv

(* A file is asked for: what is listed is what was asked for. *)
LEMMA SelectType ==
  ASSUME NEW u, MenuInv(u), NEW ptr, NEW buffer, NEW select, NEW cancel,
         SelectFile(u, ptr, buffer, select, cancel), NoEffect,
         UNCHANGED <<osd, lost>>,
         \/ ptr \in Exts /\ buffer = fs.buffer
         \/ /\ ptr = "ext"
            /\ \E i \in DOMAIN Strings :
                  Strings[i].kind \in {"F", "S"} /\ buffer = Strings[i].ext
  PROVE  /\ fs'.select = select /\ fs'.cancel = cancel
         /\ ui'.state = "FILE_SELECT1" /\ ui'.sub = u.sub /\ ui'.mask = u.mask
         /\ ui'.parent = u.parent /\ DOMAIN ui' = Fields
         /\ WorldTypeOK' /\ (OneList => ListInv')
<1>1. fs' = [ptr |-> ptr, buffer |-> buffer,
             list |-> IF Points(ptr, buffer) # Points(fs.ptr, buffer)
                      THEN Points(ptr, buffer) ELSE fs.list,
             select |-> select, cancel |-> cancel]
      /\ GoTo(u, "FILE_SELECT1")
  BY DEF SelectFile
<1>2. ui' = [u EXCEPT !.state = "FILE_SELECT1"] /\ DOMAIN u = Fields
  BY <1>1 DEF GoTo, MenuInv, CursorInv
<1>3. UNCHANGED <<core, mmc, world, effects, osd, lost>>
  BY DEF NoEffect
<1>4. buffer \in Exts \cup {""} /\ ptr \in Exts \cup {"ext"}
  BY DEF MenuInv, WorldTypeOK, Exts
<1>5. WorldTypeOK'
  <2>1. Points(ptr, buffer) \in Exts \cup {""}
    BY <1>4 DEF Points
  <2>2. fs'.list \in Exts \cup {""}
    BY <1>1, <2>1 DEF MenuInv, WorldTypeOK
  <2> QED
    BY <1>1, <1>3, <1>4, <2>2 DEF MenuInv, WorldTypeOK, world
<1>6. /\ ui'.state = "FILE_SELECT1" /\ ui'.sub = u.sub /\ ui'.mask = u.mask
      /\ ui'.parent = u.parent /\ DOMAIN ui' = Fields
  BY <1>2 DEF Fields
<1>7. ASSUME OneList, ListInv PROVE ListInv'
  <2>1. "ext" \notin Exts
    BY MenuAssumption
  <2>2. Wanted' = Points(ptr, buffer)
    BY <1>1 DEF Wanted
  <2>3. CASE ptr \in Exts /\ buffer = fs.buffer
    <3>1. fs.list = Points(fs.ptr, buffer)
      BY <1>7, <2>3 DEF ListInv, Wanted
    <3>2. fs'.ptr # "ext"
      BY <1>1, <2>1, <2>3
    <3> QED
      BY <1>1, <2>2, <3>1, <3>2 DEF ListInv
  <2>4. CASE /\ ptr = "ext"
             /\ \E i \in DOMAIN Strings :
                  Strings[i].kind \in {"F", "S"} /\ buffer = Strings[i].ext
    <3>1. Points(ptr, buffer) = buffer
      BY <2>4 DEF Points
    <3>2. fs.ptr = "ext" => fs.list = buffer
      BY <1>7, <2>4 DEF ListInv, Wanted, Points, OneList
    <3>3. fs'.list = buffer
      BY <1>1, <1>7, <3>1, <3>2 DEF Points, ListInv, Wanted
    <3> QED
      BY <1>1, <2>2, <2>4, <3>1, <3>3 DEF ListInv
  <2> QED
    BY <2>3, <2>4
<1> QED
  BY <1>1, <1>5, <1>6, <1>7 DEF MenuInv

(* A file is asked for, but not for a hard disk. *)
LEMMA SelectInv ==
  ASSUME NEW u, MenuInv(u), Apart(u), NEW ptr, NEW buffer, NEW select, NEW cancel,
         SelectFile(u, ptr, buffer, select, cancel), NoEffect,
         UNCHANGED <<osd, lost>>,
         \/ ptr \in Exts /\ buffer = fs.buffer
         \/ /\ ptr = "ext"
            /\ \E i \in DOMAIN Strings :
                  Strings[i].kind \in {"F", "S"} /\ buffer = Strings[i].ext,
         select \notin HardfilePages, cancel \notin HardfilePages,
         RowFits(select, u.sub), RowFits(cancel, u.sub)
  PROVE  MenuInv(ui)'
<1>1. /\ fs'.select = select /\ fs'.cancel = cancel
      /\ ui'.state = "FILE_SELECT1" /\ ui'.sub = u.sub /\ ui'.mask = u.mask
      /\ ui'.parent = u.parent /\ DOMAIN ui' = Fields
      /\ WorldTypeOK' /\ (OneList => ListInv')
  BY SelectType, Zenon
<1>2. UNCHANGED <<core, mmc, world, effects, osd, lost>>
  BY DEF NoEffect
<1>3. CursorInv(ui)'
  <2>1. RowFits(select, u.sub)' /\ RowFits(cancel, u.sub)'
    BY <1>2 DEF RowFits, DiskOf, world
  <2>2. RowFits(ui.state, ui.sub)'
    BY <1>1 DEF RowFits
  <2> QED
    BY <1>1, <2>1, <2>2 DEF MenuInv, CursorInv
<1>4. HardInv(ui)'
  <2>1. ~Inside(u) /\ u.state # "NONE1"
    BY DEF Apart, Inside
  <2>2. ~Inside(ui)'
    BY <1>1 DEF Inside, HardfilePages
  <2>3. SelectorInv'
    BY <1>1 DEF SelectorInv
  <2>4. /\ AsOpened(config.hardfile)' <=> AsOpened(config.hardfile)
        /\ AsOpened(t_hardfile)' <=> AsOpened(t_hardfile)
        /\ lost' = lost
    BY <1>2 DEF AsOpened, world
  <2> QED
    BY <1>1, <2>1, <2>2, <2>3, <2>4 DEF MenuInv, HardInv
<1> QED
  BY <1>1, <1>3, <1>4 DEF MenuInv

LEMMA ChooseInv ==
  ASSUME NEW u, MenuInv(u), Apart(u), NEW ext \in Exts, NEW select, NEW cancel,
         Choose(u, ext, select, cancel),
         select \notin HardfilePages, cancel \notin HardfilePages,
         RowFits(select, u.sub), RowFits(cancel, u.sub)
  PROVE  MenuInv(ui)'
  BY SelectInv DEF Choose

(* What a selection changes besides the menu. *)
LEMMA EffectType ==
  ASSUME WorldTypeOK, Effect \/ Charged
  PROVE  effects' \in 0 .. MaxEffects /\ UNCHANGED <<core, mmc>>
<1>1. effects \in Nat /\ MaxEffects \in Nat /\ effects <= MaxEffects
  <2>1. MaxEffects \in Nat
    BY MenuAssumption
  <2>2. effects \in 0 .. MaxEffects
    BY Zenon DEF WorldTypeOK
  <2> QED
    BY <2>1, <2>2
<1>2. CASE Effect
  BY <1>1, <1>2 DEF Effect
<1>3. CASE Charged
  BY <1>1, <1>3 DEF Charged
<1> QED
  BY <1>2, <1>3

LEMMA SpareDisks ==
  ASSUME WorldTypeOK, NEW m \in {"amiga", "st", "archie"}, NEW ds,
         ds \subseteq IF m = "archie" THEN {0, 1} ELSE 0 .. 3,
         disks' = [disks EXCEPT ![m] = ds], Effect \/ Charged,
         UNCHANGED <<osd, fs, config, t_hardfile, saved, hdf, drives, st, lost>>
  PROVE  Spares
<1>1. effects' \in 0 .. MaxEffects /\ UNCHANGED <<core, mmc>>
  BY EffectType
<1>2. /\ DOMAIN disks' = {"amiga", "st", "archie"}
      /\ disks'.amiga \subseteq 0 .. 3 /\ disks'.st \subseteq 0 .. 3
      /\ disks'.archie \subseteq {0, 1}
  BY DEF WorldTypeOK
<1> QED
  BY <1>1, <1>2 DEF WorldTypeOK, Spares

LEMMA SpareSt ==
  ASSUME WorldTypeOK, NEW b \in BOOLEAN, Effect \/ Charged,
         st' = [st EXCEPT !.cart = b] \/ st' = [st EXCEPT !.direct = b],
         UNCHANGED <<osd, fs, config, t_hardfile, saved, hdf, drives, disks, lost>>
  PROVE  Spares
<1>1. effects' \in 0 .. MaxEffects /\ UNCHANGED <<core, mmc>>
  BY EffectType
<1>2. st' \in [direct : BOOLEAN, cart : BOOLEAN]
  BY DEF WorldTypeOK
<1> QED
  BY <1>1, <1>2 DEF WorldTypeOK, Spares

-----------------------------------------------------------------------------
(* At the hard disks.                                                      *)

(* The cursor goes from one of their pages to another. *)
Remains(u) ==
    /\ DOMAIN ui' = Fields /\ ui'.sub \in Rows /\ ui'.mask \subseteq Rows
    /\ ui'.parent \notin NoParents
    /\ ui'.parent = "8BIT_MAIN1" => \A r \in ui'.mask : r <= LastRow
    /\ ui'.state \in HardfilePages
    /\ ui'.mask = {} \/ ui'.parent \in HardfilePages

LEMMA RemainInv ==
  ASSUME NEW u, MenuInv(u), Inside(u), Remains(u), WorldTypeOK', fs' = fs,
         UNCHANGED <<t_hardfile, hdf, lost>>
  PROVE  MenuInv(ui)'
<1>1. CursorInv(ui)' /\ Inside(ui)'
  BY DEF Remains, CursorInv, RowFits, Inside, HardfilePages, Selecting
<1>2. SelectorInv'
  BY DEF MenuInv, HardInv, SelectorInv
<1>3. AsOpened(t_hardfile)' <=> AsOpened(t_hardfile)
  BY DEF AsOpened
<1>4. HardInv(ui)'
  BY <1>1, <1>2, <1>3 DEF MenuInv, HardInv, Remains
<1>5. OneList => ListInv'
  BY DEF MenuInv, ListInv, Wanted
<1> QED
  BY <1>1, <1>4, <1>5 DEF MenuInv

(* They are left with the configuration they were entered with. *)
LEMMA LeaveInv ==
  ASSUME NEW u, MenuInv(u), Inside(u), Turns(u), WorldTypeOK', fs' = fs,
         UNCHANGED <<t_hardfile, hdf, lost>>, config'.hardfile = t_hardfile
  PROVE  MenuInv(ui)'
<1>1. CursorInv(ui)' /\ ~Inside(ui)'
  BY TurnFits
<1>2. SelectorInv'
  BY DEF MenuInv, HardInv, SelectorInv
<1>3. /\ AsOpened(t_hardfile)' <=> AsOpened(t_hardfile)
      /\ AsOpened(config.hardfile)' <=> AsOpened(t_hardfile)
  BY DEF AsOpened
<1>4. HardInv(ui)'
  BY <1>1, <1>2, <1>3 DEF MenuInv, HardInv
<1>5. OneList => ListInv'
  BY DEF MenuInv, ListInv, Wanted
<1> QED
  BY <1>1, <1>4, <1>5 DEF MenuInv

(* The page is entered: its copy is made. *)
LEMMA EnterInv ==
  ASSUME NEW u, MenuInv(u), Apart(u), EnterHardfiles(u)
  PROVE  MenuInv(ui)'
<1>1. /\ ui' = [u EXCEPT !.state = "SETTINGS_HARDFILE1", !.sub = 0]
      /\ t_hardfile' = config.hardfile
      /\ UNCHANGED <<core, mmc, osd, fs, config, saved, hdf, drives, disks, st,
                     effects, lost>>
  BY DEF EnterHardfiles, Enter
<1>2. /\ ui'.state = "SETTINGS_HARDFILE1" /\ ui'.sub = 0 /\ ui'.mask = u.mask
      /\ ui'.parent = u.parent /\ DOMAIN ui' = Fields
  BY <1>1 DEF MenuInv, CursorInv, Fields
<1>3. CursorInv(ui)' /\ Inside(ui)'
  BY <1>2 DEF MenuInv, CursorInv, RowFits, Inside, HardfilePages, Selecting, Rows
<1>4. WorldTypeOK'
  <2>1. config.hardfile \in [Units -> Hardfile]
    BY DEF MenuInv, WorldTypeOK, Config
  <2> QED
    BY <1>1, <2>1 DEF MenuInv, WorldTypeOK
<1>5. ~Inside(u)
  BY DEF Apart, Inside
<1>6. SelectorInv'
  BY <1>1 DEF MenuInv, HardInv, SelectorInv
<1>7. /\ AsOpened(t_hardfile)' <=> AsOpened(config.hardfile)
      /\ AsOpened(config.hardfile)' <=> AsOpened(config.hardfile)
  BY <1>1 DEF AsOpened
<1>8. HardInv(ui)'
  BY <1>1, <1>2, <1>3, <1>5, <1>6, <1>7 DEF MenuInv, HardInv
<1>9. OneList => ListInv'
  BY <1>1 DEF MenuInv, ListInv, Wanted
<1> QED
  BY <1>3, <1>4, <1>8, <1>9 DEF MenuInv

LEMMA ConfigType ==
  ASSUME WorldTypeOK
  PROVE  /\ DOMAIN config = {"drives", "ide", "hardfile"}
         /\ config.drives \in 0 .. 4 /\ config.ide \in BOOLEAN
         /\ config.hardfile \in [Units -> Hardfile]
         /\ \A i \in Units :
              /\ DOMAIN config.hardfile[i] = {"kind", "name", "present"}
              /\ config.hardfile[i].kind \in Kinds
              /\ config.hardfile[i].name \in Names \cup {"HARDFILE"}
              /\ config.hardfile[i].present \in BOOLEAN
  BY DEF WorldTypeOK, Config, Hardfile

(* What the core is told of a configuration are drives that it has. *)
LEMMA ToldType ==
  ASSUME NEW c, c.drives \in 0 .. 4
  PROVE  DrivesTold(c) \in 0 .. 3
<1>1. \A n \in 0 .. 4 : n % 4 \in 0 .. 3
  OBVIOUS
<1> QED
  BY <1>1 DEF DrivesTold

LEMMA OpenedType ==
  ASSUME NEW h \in Hardfile
  PROVE  Opened(h) \in Hardfile /\ OpenedAs(Opened(h)) = OpenedAs(h)
<1>1. Present(h) \in BOOLEAN
  BY DEF Present
<1> QED
  BY <1>1 DEF Opened, OpenedAs, Hardfile

LEMMA KindType ==
  ASSUME NEW k \in Kinds
  PROVE  NextKind(k) \in Kinds
<1>1. Partitions \in 0 .. 4
  BY MenuAssumption
<1> QED
  BY <1>1 DEF NextKind, Kinds, HDF_FILE, HDF_SYNTHRDB

LEMMA DefaultsType == Defaults \in Config
<1>1. Partitions \in 0 .. 4 /\ Units \subseteq {0, 1}
  BY MenuAssumption
<1>2. \A i \in Units : i + 1 \in Kinds
  BY <1>1 DEF Kinds
<1> QED
  BY <1>2 DEF Defaults, Config, Hardfile

(* A configuration is loaded, or the default one, and its disks opened. *)
LEMMA LoadType ==
  ASSUME WorldTypeOK, NEW slot, LoadConfiguration(slot)
  PROVE  /\ config' \in Config
         /\ DOMAIN hdf' = Units
         /\ \A i \in Units : hdf'[i] \in Kinds \X (Names \cup {"HARDFILE"})
         /\ drives' \in 0 .. 3 /\ lost' = FALSE
         /\ AsOpened(config.hardfile)'
<1>1. PICK c \in Config :
         /\ config' = [c EXCEPT !.hardfile = [i \in Units |-> Opened(c.hardfile[i])]]
         /\ hdf' = [i \in Units |-> OpenedAs(c.hardfile[i])]
         /\ drives' \in {DrivesTold(c), 1}
  <2>1. ReadFrom(slot) \subseteq Config
    <3>1. \A s \in Slots : saved[s] # NoConfig => saved[s] \in Config
      BY DEF WorldTypeOK
    <3> QED
      BY <3>1, DefaultsType DEF ReadFrom
  <2> QED
    BY <2>1 DEF LoadConfiguration
<1>2. /\ DOMAIN c = {"drives", "ide", "hardfile"} /\ c.drives \in 0 .. 4
      /\ c.ide \in BOOLEAN /\ c.hardfile \in [Units -> Hardfile]
  BY DEF Config
<1>3. \A i \in Units : /\ Opened(c.hardfile[i]) \in Hardfile
                       /\ OpenedAs(Opened(c.hardfile[i])) = OpenedAs(c.hardfile[i])
  BY <1>2, OpenedType
<1>4. config'.hardfile = [i \in Units |-> Opened(c.hardfile[i])]
  BY <1>1, <1>2
<1>5. config' \in Config
  <2>1. [i \in Units |-> Opened(c.hardfile[i])] \in [Units -> Hardfile]
    BY <1>3
  <2> QED
    BY <1>1, <2>1 DEF Config
<1>6. \A i \in Units : hdf'[i] \in Kinds \X (Names \cup {"HARDFILE"})
  BY <1>1, <1>2 DEF OpenedAs, Hardfile
<1>7. AsOpened(config.hardfile)'
  BY <1>1, <1>3, <1>4 DEF AsOpened
<1>8. drives' \in 0 .. 3
  BY <1>1, <1>2, ToldType
<1> QED
  BY <1>1, <1>2, <1>5, <1>6, <1>7, <1>8 DEF LoadConfiguration

LEMMA RemainKept ==
  ASSUME NEW u, MenuInv(u), Inside(u), u.state # "SETTINGS_HARDFILE1",
         NEW s \in HardfilePages, NEW r \in Rows,
         GoTo(u, s) \/ Enter(u, s, r) \/ (Stay(u) /\ u.state = s)
  PROVE  Remains(u)
<1>1. u.mask = {} \/ u.parent \in HardfilePages
  BY DEF MenuInv, HardInv
<1> QED
  BY <1>1 DEF MenuInv, CursorInv, Fields, Remains, GoTo, Enter, Stay

LEMMA RemainDraw ==
  ASSUME NEW u, NEW p \in HardfilePages, NEW s \in HardfilePages,
         NEW rows \in SUBSET Rows, CursorInv(u), Draw(u, p, s, rows)
  PROVE  Remains(u)
  BY DEF CursorInv, Fields, Remains, Draw, HardfilePages, NoParents, Selecting

(* Disks go in or out. *)
LEMMA DiskInv ==
  ASSUME NEW u, MenuInv(u), Apart(u), Turns(u), NEW m \in {"amiga", "st", "archie"},
         \/ \E ds : disks' = [disks EXCEPT ![m] = @ \ ds]
         \/ \E d \in (IF m = "archie" THEN {0, 1} ELSE 0 .. 3) :
                disks' = [disks EXCEPT ![m] = @ \cup {d}],
         Effect \/ Charged,
         UNCHANGED <<osd, fs, config, t_hardfile, saved, hdf, drives, st, lost>>
  PROVE  MenuInv(ui)'
<1>1. disks[m] \subseteq IF m = "archie" THEN {0, 1} ELSE 0 .. 3
  BY DEF MenuInv, WorldTypeOK
<1>2. \E ds : /\ ds \subseteq IF m = "archie" THEN {0, 1} ELSE 0 .. 3
              /\ disks' = [disks EXCEPT ![m] = ds]
  BY <1>1
<1>3. Spares
  BY <1>2, SpareDisks DEF MenuInv
<1> QED
  BY <1>3, TurnInv

LEMMA EjectInv ==
  ASSUME NEW u, MenuInv(u), Apart(u), NEW m \in {"amiga", "st", "archie"},
         NEW ds, NEW page, Ordinary(page), Eject(u, m, ds, page)
  PROVE  MenuInv(ui)'
  BY DiskInv, TurnGoTo DEF Eject, MenuInv

LEMMA InsertInv ==
  ASSUME NEW u, MenuInv(u), Apart(u), NEW d \in 0 .. 3, NEW page, Ordinary(page),
         NEW row \in Rows, Insert(u, "amiga", d, page, row)
  PROVE  MenuInv(ui)'
<1>1. Turns(u)
  BY TurnEnter DEF Insert, MenuInv
<1> QED
  BY <1>1, DiskInv DEF Insert

LEMMA FillInv ==
  ASSUME NEW u, MenuInv(u), Apart(u), NEW m \in {"st", "archie"},
         NEW d \in (IF m = "archie" THEN {0, 1} ELSE 0 .. 3), NEW page,
         Ordinary(page), Fill(u, m, d, page)
  PROVE  MenuInv(ui)'
<1>1. Turns(u)
  BY TurnGoTo DEF Fill, MenuInv
<1> QED
  BY <1>1, DiskInv DEF Fill

LEMMA ToggleInv ==
  ASSUME NEW u, MenuInv(u), Apart(u), NEW m \in {"st", "archie"}, NEW d,
         NEW page, Ordinary(page), NEW ext \in Literals, NEW select,
         select \notin HardfilePages, RowFits(select, u.sub),
         Toggle(u, m, d, page, ext, select)
  PROVE  MenuInv(ui)'
<1>1. CASE /\ disks' = [disks EXCEPT ![m] = @ \ {d}]
           /\ GoTo(u, page) /\ Effect
           /\ UNCHANGED <<osd, fs, config, t_hardfile, saved, hdf, drives, st, lost>>
  <2>1. Turns(u)
    BY <1>1, TurnGoTo DEF MenuInv
  <2> QED
    BY <1>1, <2>1, DiskInv
<1>2. CASE Choose(u, ext, select, page)
  <2>1. ext \in Exts /\ page \notin HardfilePages /\ RowFits(page, u.sub)
    BY DEF Exts, Ordinary, RowFits
  <2> QED
    BY <1>2, <2>1, ChooseInv
<1> QED
  BY <1>1, <1>2 DEF Toggle

(* A configuration is loaded and the menu closed. *)
LEMMA LoadedInv ==
  ASSUME NEW u, MenuInv(u), NEW slot, LoadConfiguration(slot), GoTo(u, "NONE1"),
         osd' = "off", core' \in Cores, effects' \in 0 .. MaxEffects \/ Effect,
         disks' = disks \/ disks' = [disks EXCEPT !.amiga = {}],
         UNCHANGED <<mmc, fs, t_hardfile, saved, st>>
  PROVE  MenuInv(ui)'
<1>1. WorldTypeOK /\ CursorInv(u)
  BY DEF MenuInv
<1>2. /\ config' \in Config
      /\ DOMAIN hdf' = Units
      /\ \A i \in Units : hdf'[i] \in Kinds \X (Names \cup {"HARDFILE"})
      /\ drives' \in 0 .. 3 /\ lost' = FALSE
      /\ AsOpened(config.hardfile)'
  BY <1>1, LoadType
<1>3. effects' \in 0 .. MaxEffects
  BY <1>1, EffectType
<1>4. WorldTypeOK'
  BY <1>1, <1>2, <1>3 DEF WorldTypeOK
<1>5. Turns(u) /\ ui'.state = "NONE1"
  BY <1>1, TurnGoTo
  DEF Ordinary, Selecting, HardfilePages, GoTo, CursorInv, Fields
<1> QED
  BY <1>2, <1>4, <1>5, CloseInv

(* The main pages of the Minimig. *)
LEMMA MinimigMainInv ==
  ASSUME NEW u, NEW c, MenuInv(u),
         \/ MENU_MAIN1(u) \/ MENU_MAIN2(u, c) \/ MENU_FILE_SELECTED(u)
         \/ MENU_MAIN2_1(u) \/ MENU_MAIN2_2(u, c) \/ MENU_MISC1(u)
         \/ MENU_MISC2(u, c) \/ MENU_ABOUT1(u) \/ MENU_ABOUT2(u, c)
  PROVE  MenuInv(ui)'
<1> USE DEF Apart, Ordinary, HardfilePages, Selecting, Rows
<1>0. CursorInv(u)
  BY DEF MenuInv
<1>1. CASE MENU_MAIN1(u)
  <2>1. drives \in 0 .. 3
    BY DEF MenuInv, WorldTypeOK
  <2>2. {4, 5, 6} \cup (0 .. drives \ {config.drives + 1}) \subseteq Rows
    BY <2>1
  <2> QED
    BY <1>1, <1>0, <2>2, PlainInv, TurnDraw DEF MENU_MAIN1
<1>2. CASE MENU_MAIN2(u, c)
  <2>1. u.state = "MAIN2" /\ Apart(u)
    BY <1>2 DEF MENU_MAIN2
  <2>2. ASSUME OnlyMenu, \/ GoTo(u, "NONE1") \/ GoTo(u, "MAIN1")
                         \/ Enter(u, "MAIN2_1", 0) \/ Stay(u)
        PROVE  MenuInv(ui)'
    BY <1>0, <2>1, <2>2, PlainInv, TurnEnter, TurnGoTo, TurnStay
  <2>3. ASSUME ChangeDrives(u, c) PROVE MenuInv(ui)'
    <3>1. /\ config' = [config EXCEPT !.drives = DrivesAfter(c)]
          /\ DrivesAfter(c) \in 0 .. 3 /\ GoTo(u, "MAIN1") /\ Effect
          /\ UNCHANGED <<osd, fs, t_hardfile, saved, hdf, drives, disks, st, lost>>
      BY <2>3 DEF ChangeDrives, DrivesAllowed
    <3>2. config' \in Config /\ config'.hardfile = config.hardfile
      <4>1. DrivesAfter(c) \in 0 .. 4 /\ config \in Config
        <5>1. \A d \in 0 .. 3 : d \in 0 .. 4
          OBVIOUS
        <5> QED
          BY <3>1, <5>1, Zenon DEF MenuInv, WorldTypeOK
      <4>2. \A d \in 0 .. 4 : [config EXCEPT !.drives = d] \in Config
        BY <4>1 DEF Config
      <4>3. [config EXCEPT !.drives = DrivesAfter(c)].hardfile = config.hardfile
        BY <4>1 DEF Config
      <4> QED
        BY <3>1, <4>1, <4>2, <4>3
    <3>3. effects' \in 0 .. MaxEffects /\ UNCHANGED <<core, mmc>>
      BY <3>1, EffectType DEF MenuInv
    <3>4. Spares
      BY <3>1, <3>2, <3>3 DEF MenuInv, WorldTypeOK, Spares
    <3>5. Turns(u)
      BY <1>0, <3>1, TurnGoTo
    <3> QED
      BY <2>1, <3>4, <3>5, TurnInv
  <2>4. ASSUME Choose(u, "ADF", "FILE_SELECTED", "MAIN1"), u.sub \in 0 .. 3
        PROVE  MenuInv(ui)'
    BY <2>1, <2>4, ChooseInv DEF RowFits, Exts, Literals
  <2>5. ASSUME NEW ds, Eject(u, "amiga", ds, "MAIN1") PROVE MenuInv(ui)'
    BY <2>1, <2>5, EjectInv
  <2>6. ASSUME EnterHardfiles(u) PROVE MenuInv(ui)'
    BY <2>1, <2>6, EnterInv
  <2> QED
    BY <1>2, <2>2, <2>3, <2>4, <2>5, <2>6 DEF MENU_MAIN2, Otherwise
<1>3. CASE MENU_FILE_SELECTED(u)
  <2>1. u.state = "FILE_SELECTED" /\ u.sub \in 0 .. 3 /\ drives \in 0 .. 3
    BY <1>3, <1>0 DEF MENU_FILE_SELECTED, CursorInv, RowFits, MenuInv, WorldTypeOK
  <2>2. (IF u.sub + 1 > drives THEN 6 ELSE u.sub + 1) \in Rows
    BY <2>1
  <2> QED
    BY <1>3, <2>1, <2>2, InsertInv DEF MENU_FILE_SELECTED
<1>4. CASE MENU_MAIN2_1(u)
  BY <1>4, <1>0, PlainInv, TurnDraw
  DEF MENU_MAIN2_1
<1>5. CASE MENU_MAIN2_2(u, c)
  BY <1>5, <1>0, PlainInv, TurnEnter, TurnGoTo, TurnStay
  DEF MENU_MAIN2_2, Otherwise, SettingsPage
<1>6. CASE MENU_MISC1(u)
  BY <1>6, <1>0, PlainInv, TurnDraw
  DEF MENU_MISC1
<1>7. CASE MENU_MISC2(u, c)
  BY <1>7, <1>0, PlainInv, TurnEnter, TurnGoTo, TurnStay
  DEF MENU_MISC2, Otherwise
<1>8. CASE MENU_ABOUT1(u)
  BY <1>8, <1>0, PlainInv, TurnDraw
  DEF MENU_ABOUT1
<1>9. CASE MENU_ABOUT2(u, c)
  BY <1>9, <1>0, PlainInv, TurnEnter, TurnStay
  DEF MENU_ABOUT2, Otherwise
<1> QED
  BY <1>1, <1>2, <1>3, <1>4, <1>5, <1>6, <1>7, <1>8, <1>9

(* The configurations and the reset. *)
LEMMA SlotsInv ==
  ASSUME NEW u, NEW c, MenuInv(u),
         \/ MENU_LOADCONFIG_1(u) \/ MENU_LOADCONFIG_2(u, c)
         \/ MENU_SAVECONFIG_1(u) \/ MENU_SAVECONFIG_2(u, c)
         \/ MENU_RESET1(u) \/ MENU_RESET2(u, c)
  PROVE  MenuInv(ui)'
<1> USE DEF Apart, Ordinary, HardfilePages, Selecting, Rows
<1>0. CursorInv(u)
  BY DEF MenuInv
<1>1. CASE MENU_LOADCONFIG_1(u)
  <2>1. u.mask \in SUBSET Rows
        /\ {5} \cup {s \in Slots : saved[s] # NoConfig} \in SUBSET Rows
    <3>0. Slots \subseteq 0 .. 4
      BY MenuAssumption
    <3>1. \A s \in Slots : s \in Rows
      BY <3>0
    <3>2. 5 \in Rows
      OBVIOUS
    <3> HIDE DEF Rows
    <3>3. u.mask \in SUBSET Rows
      BY <1>0 DEF CursorInv
    <3> QED
      BY <3>1, <3>2, <3>3
  <2>2. PICK rows : /\ Draw(u, "LOADCONFIG_1", "LOADCONFIG_2", rows)
                    /\ rows = u.mask \/ rows = {5} \cup {s \in Slots : saved[s] # NoConfig}
    BY <1>1 DEF MENU_LOADCONFIG_1
  <2>3. rows \in SUBSET Rows
    BY <2>1, <2>2, Zenon
  <2>4. Turns(u)
    BY <1>0, <2>2, <2>3, TurnDraw
  <2> QED
    BY <1>1, <2>4, PlainInv DEF MENU_LOADCONFIG_1
<1>2. CASE MENU_LOADCONFIG_2(u, c)
  <2>1. u.state = "LOADCONFIG_2" /\ Apart(u)
    BY <1>2 DEF MENU_LOADCONFIG_2
  <2>2. CASE OnlyMenu /\ (GoTo(u, "LOADCONFIG_1") \/ Enter(u, "MAIN2_1", 0) \/ Stay(u))
    BY <1>0, <2>1, <2>2, PlainInv, TurnEnter, TurnGoTo, TurnStay
  <2>3. CASE /\ osd' = "off" /\ LoadConfiguration(u.sub) /\ GoTo(u, "NONE1")
             /\ Effect /\ UNCHANGED <<fs, t_hardfile, saved, disks, st>>
    <3>1. core' \in Cores /\ UNCHANGED mmc
      BY <2>3 DEF Effect, MenuInv, WorldTypeOK
    <3> QED
      BY <2>3, <3>1, LoadedInv
  <2> QED
    BY <1>2, <2>2, <2>3 DEF MENU_LOADCONFIG_2, Otherwise
<1>3. CASE MENU_SAVECONFIG_1(u)
  BY <1>3, <1>0, PlainInv, TurnDraw
  DEF MENU_SAVECONFIG_1
<1>4. CASE MENU_SAVECONFIG_2(u, c)
  <2>1. u.state = "SAVECONFIG_2" /\ Apart(u)
    BY <1>4 DEF MENU_SAVECONFIG_2
  <2>2. CASE OnlyMenu /\ (GoTo(u, "SAVECONFIG_1") \/ Enter(u, "MAIN2_1", 1) \/ Stay(u))
    BY <1>0, <2>1, <2>2, PlainInv, TurnEnter, TurnGoTo, TurnStay
  <2>3. CASE SaveConfiguration(u)
    <3>1. /\ saved' \in {saved, [saved EXCEPT ![u.sub] = config]}
          /\ GoTo(u, "NONE1") /\ Effect
          /\ UNCHANGED <<osd, fs, config, t_hardfile, hdf, drives, disks, st, lost>>
      BY <2>3 DEF SaveConfiguration
    <3>2. saved' \in [Slots -> Config \cup {NoConfig}]
      BY <3>1 DEF MenuInv, WorldTypeOK
    <3>3. effects' \in 0 .. MaxEffects /\ UNCHANGED <<core, mmc>>
      BY <3>1, EffectType DEF MenuInv
    <3>4. Spares
      BY <3>1, <3>2, <3>3 DEF MenuInv, WorldTypeOK, Spares
    <3> QED
      BY <1>0, <2>1, <3>1, <3>4, TurnGoTo, TurnInv
  <2> QED
    BY <1>4, <2>2, <2>3 DEF MENU_SAVECONFIG_2, Otherwise
<1>5. CASE MENU_RESET1(u)
  BY <1>5, <1>0, PlainInv, TurnDraw
  DEF MENU_RESET1
<1>6. CASE MENU_RESET2(u, c)
  <2>1. u.state = "RESET2" /\ Apart(u)
    BY <1>6 DEF MENU_RESET2
  <2>2. CASE OnlyMenu /\ (Enter(u, "MISC1", 0) \/ Stay(u))
    BY <1>0, <2>1, <2>2, PlainInv, TurnEnter, TurnStay
  <2>3. CASE /\ OsdReset /\ GoTo(u, "NONE1")
             /\ UNCHANGED <<core, mmc, osd, fs, config, t_hardfile, saved, hdf,
                            disks, st, effects, lost>>
    <3>1. drives' \in 0 .. 3
      BY <2>3, ConfigType, ToldType DEF OsdReset, MenuInv
    <3>2. Spares
      BY <2>3, <3>1 DEF MenuInv, WorldTypeOK, Spares
    <3> QED
      BY <1>0, <2>1, <2>3, <3>2, TurnGoTo, TurnInv
  <2> QED
    BY <1>6, <2>2, <2>3 DEF MENU_RESET2, Otherwise
<1> QED
  BY <1>1, <1>2, <1>3, <1>4, <1>5, <1>6

(* The settings. *)
LEMMA SettingsInv ==
  ASSUME NEW u, NEW c, MenuInv(u),
         \/ MENU_SETTINGS_CHIPSET1(u) \/ MENU_SETTINGS_CHIPSET2(u, c)
         \/ MENU_SETTINGS_MEMORY1(u) \/ MENU_SETTINGS_MEMORY2(u, c)
         \/ MENU_SETTINGS_VIDEO1(u) \/ MENU_SETTINGS_VIDEO2(u, c)
         \/ MENU_ROMFILE_SELECTED(u) \/ MENU_ROMFILE_SELECTED2(u, c)
  PROVE  MenuInv(ui)'
<1> USE DEF Apart, Ordinary, HardfilePages, Selecting, Rows
<1>0. CursorInv(u)
  BY DEF MenuInv
<1>1. CASE MENU_SETTINGS_CHIPSET1(u)
  <2>1. Turns(u)
    BY <1>0, <1>1
    DEF MENU_SETTINGS_CHIPSET1, Draw, Turns, CursorInv, Fields, RowFits
  <2> QED
    BY <1>1, <2>1, PlainInv DEF MENU_SETTINGS_CHIPSET1
<1>2. CASE MENU_SETTINGS_CHIPSET2(u, c)
  <2>1. u.sub \in Rows /\ u.state = "SETTINGS_CHIPSET2"
    BY <1>0, <1>2 DEF CursorInv, MENU_SETTINGS_CHIPSET2
  <2>2. ASSUME NEW r \in Rows, NEW s \in {"SETTINGS_CHIPSET1", "MAIN2_1",
                   "SETTINGS_MEMORY1", "SETTINGS_VIDEO1"}, Enter(u, s, r), OnlyMenu
        PROVE  MenuInv(ui)'
    BY <1>0, <2>1, <2>2, PlainInv, TurnEnter
  <2>3. u.sub < 4 => u.sub + 1 \in Rows
    BY <2>1
  <2>4. u.sub > 0 => u.sub - 1 \in Rows
    BY <2>1
  <2>5. CASE GoTo(u, "SETTINGS_CHIPSET1") \/ Stay(u)
    BY <1>0, <1>2, <2>1, <2>5, PlainInv, TurnGoTo, TurnStay
    DEF MENU_SETTINGS_CHIPSET2
  <2> QED
    BY <1>2, <2>2, <2>3, <2>4, <2>5 DEF MENU_SETTINGS_CHIPSET2, Otherwise
<1>3. CASE MENU_SETTINGS_MEMORY1(u)
  BY <1>3, <1>0, PlainInv, TurnDraw
  DEF MENU_SETTINGS_MEMORY1
<1>4. CASE MENU_SETTINGS_MEMORY2(u, c)
  <2>1. u.state = "SETTINGS_MEMORY2" /\ Apart(u)
    BY <1>4 DEF MENU_SETTINGS_MEMORY2
  <2>2. ASSUME OnlyMenu, \/ GoTo(u, "SETTINGS_MEMORY1") \/ Enter(u, "MAIN2_1", 3)
                         \/ Enter(u, "SETTINGS_VIDEO1", 0)
                         \/ Enter(u, "SETTINGS_CHIPSET1", 0) \/ Stay(u)
        PROVE  MenuInv(ui)'
    BY <1>0, <2>1, <2>2, PlainInv, TurnEnter, TurnGoTo, TurnStay
  <2>3. ASSUME Choose(u, "ROM", "ROMFILE_SELECTED", "SETTINGS_MEMORY1")
        PROVE  MenuInv(ui)'
    BY <2>1, <2>3, ChooseInv DEF RowFits, Exts, Literals
  <2> QED
    BY <1>4, <2>2, <2>3 DEF MENU_SETTINGS_MEMORY2, Otherwise
<1>5. CASE MENU_SETTINGS_VIDEO1(u)
  BY <1>5, <1>0, PlainInv, TurnDraw
  DEF MENU_SETTINGS_VIDEO1
<1>6. CASE MENU_SETTINGS_VIDEO2(u, c)
  BY <1>6, <1>0, PlainInv, TurnEnter, TurnGoTo, TurnStay
  DEF MENU_SETTINGS_VIDEO2, Otherwise, Leaves
<1>7. CASE MENU_ROMFILE_SELECTED(u)
  <2> DEFINE v == [u EXCEPT !.sub = IF u.state = "ROMFILE_SELECTED" THEN 1 ELSE @]
  <2>1. v.sub \in Rows
    BY <1>0 DEF CursorInv, Fields
  <2>2. ui' = [state |-> "ROMFILE_SELECTED2", parent |-> "ROMFILE_SELECTED1",
               sub |-> v.sub, mask |-> {0, 1}]
    BY <1>7 DEF MENU_ROMFILE_SELECTED, Draw
  <2>3. Turns(u)
    BY <2>1, <2>2 DEF Turns, Fields, RowFits, NoParents
  <2> QED
    BY <1>7, <2>3, PlainInv DEF MENU_ROMFILE_SELECTED
<1>8. CASE MENU_ROMFILE_SELECTED2(u, c)
  <2>1. u.state = "ROMFILE_SELECTED2" /\ Apart(u)
    BY <1>8 DEF MENU_ROMFILE_SELECTED2
  <2>2. CASE OnlyMenu /\ (Enter(u, "SETTINGS_MEMORY1", 2) \/ Stay(u))
    BY <1>0, <2>1, <2>2, PlainInv, TurnEnter, TurnStay
  <2>3. CASE /\ osd' = "off" /\ drives' \in {DrivesTold(config), drives}
             /\ GoTo(u, "NONE1") /\ Charged
             /\ UNCHANGED <<fs, config, t_hardfile, saved, hdf, disks, st, lost>>
    <3>1. drives' \in 0 .. 3
      <4>1. drives \in 0 .. 3 /\ config.drives \in 0 .. 4
        BY ConfigType DEF MenuInv, WorldTypeOK
      <4>2. DrivesTold(config) \in 0 .. 3
        BY <4>1, ToldType
      <4> QED
        BY <2>3, <4>1, <4>2
    <3>2. Spares
      BY <2>3, <3>1 DEF MenuInv, WorldTypeOK, Spares, Charged
    <3> QED
      BY <1>0, <2>1, <2>3, <3>2, TurnGoTo, TurnInv
  <2> QED
    BY <1>8, <2>2, <2>3 DEF MENU_ROMFILE_SELECTED2, Otherwise
<1> QED
  BY <1>1, <1>2, <1>3, <1>4, <1>5, <1>6, <1>7, <1>8

(* A hard disk's file is asked for. *)
LEMMA ChooseHardfileInv ==
  ASSUME NEW u, MenuInv(u), u.state = "SETTINGS_HARDFILE2",
         Choose(u, "HDF", "HARDFILE_SELECTED", "SETTINGS_HARDFILE1")
  PROVE  MenuInv(ui)'
<1>1. /\ SelectFile(u, "HDF", fs.buffer, "HARDFILE_SELECTED", "SETTINGS_HARDFILE1")
      /\ NoEffect /\ UNCHANGED <<osd, lost>> /\ "HDF" \in Exts
  BY DEF Choose, Exts, Literals
<1>2. /\ fs'.select = "HARDFILE_SELECTED" /\ fs'.cancel = "SETTINGS_HARDFILE1"
      /\ ui'.state = "FILE_SELECT1" /\ ui'.sub = u.sub /\ ui'.mask = u.mask
      /\ ui'.parent = u.parent /\ DOMAIN ui' = Fields
      /\ WorldTypeOK' /\ (OneList => ListInv')
  BY <1>1, SelectType
<1>3. Inside(u) /\ Inside(ui)' /\ SelectorInv'
  BY <1>2 DEF Inside, SelectorInv, HardfilePages, Selecting
<1>4. CursorInv(ui)'
  BY <1>2 DEF MenuInv, CursorInv, RowFits
<1>5. AsOpened(t_hardfile)' <=> AsOpened(t_hardfile)
  BY <1>1 DEF AsOpened, NoEffect, world
<1>6. HardInv(ui)'
  BY <1>1, <1>2, <1>3, <1>5 DEF MenuInv, HardInv
<1> QED
  BY <1>2, <1>4, <1>6 DEF MenuInv

(* The configuration of one is changed. *)
LEMMA ChangeInv ==
  ASSUME NEW u, MenuInv(u), u.state \in HardfilePages \ {"SETTINGS_HARDFILE1"},
         NEW c \in Config, NEW page \in HardfilePages, NEW row \in Rows,
         Change(u, c, page, row), Effect \/ Charged
  PROVE  MenuInv(ui)'
<1>1. /\ config' = c /\ Enter(u, page, row)
      /\ UNCHANGED <<osd, fs, t_hardfile, saved, hdf, drives, disks, st, lost>>
  BY DEF Change
<1>2. WorldTypeOK'
  <2>1. effects' \in 0 .. MaxEffects /\ UNCHANGED <<core, mmc>>
    BY EffectType DEF MenuInv
  <2> QED
    BY <1>1, <2>1 DEF MenuInv, WorldTypeOK
<1>3. Inside(u)
  BY DEF Inside
<1>4. Remains(u)
  BY <1>1, <1>3, RemainKept
<1> QED
  BY <1>1, <1>2, <1>3, <1>4, RemainInv

(* A record of a configuration after one field of one hard disk changed. *)
LEMMA HardfileType ==
  ASSUME NEW cfg \in Config, NEW i \in Units
  PROVE  /\ \A k \in Kinds : [cfg EXCEPT !.hardfile[i].kind = k] \in Config
         /\ \A n \in Names : [cfg EXCEPT !.hardfile[i].name = n] \in Config
         /\ \A b \in BOOLEAN : [cfg EXCEPT !.hardfile[i].present = b] \in Config
<1>1. cfg.hardfile \in [Units -> Hardfile] /\ cfg.hardfile[i] \in Hardfile
  BY DEF Config
<1>2. ASSUME NEW h \in Hardfile PROVE [cfg EXCEPT !.hardfile[i] = h] \in Config
  <2>1. [cfg.hardfile EXCEPT ![i] = h] \in [Units -> Hardfile]
    BY <1>1, <1>2
  <2> QED
    BY <2>1 DEF Config
<1>3. ASSUME NEW k \in Kinds PROVE [cfg EXCEPT !.hardfile[i].kind = k] \in Config
  <2>1. [cfg.hardfile[i] EXCEPT !.kind = k] \in Hardfile
    BY <1>1, <1>3 DEF Hardfile
  <2> QED
    BY <2>1, <1>2
<1>4. ASSUME NEW n \in Names PROVE [cfg EXCEPT !.hardfile[i].name = n] \in Config
  <2>1. [cfg.hardfile[i] EXCEPT !.name = n] \in Hardfile
    BY <1>1, <1>4 DEF Hardfile
  <2> QED
    BY <2>1, <1>2
<1>5. ASSUME NEW b \in BOOLEAN PROVE [cfg EXCEPT !.hardfile[i].present = b] \in Config
  <2>1. [cfg.hardfile[i] EXCEPT !.present = b] \in Hardfile
    BY <1>1, <1>5 DEF Hardfile
  <2> QED
    BY <2>1, <1>2
<1> QED
  BY <1>3, <1>4, <1>5

LEMMA RemainOnly ==
  ASSUME NEW u, MenuInv(u), Inside(u), Remains(u), OnlyMenu
  PROVE  MenuInv(ui)'
<1>1. WorldTypeOK'
  BY DEF MenuInv, WorldTypeOK, OnlyMenu, world
<1> QED
  BY <1>1, RemainInv DEF OnlyMenu, world

(* The disks are opened that differ from the copy. *)
LEMMA OpenHardfilesInv ==
  ASSUME NEW u, MenuInv(u), Inside(u), OpenHardfiles(u)
  PROVE  MenuInv(ui)'
<1> DEFINE same(i) == SameHardfile(config.hardfile[i], t_hardfile[i])
           H == [i \in Units |-> IF same(i) THEN config.hardfile[i]
                                 ELSE Opened(config.hardfile[i])]
<1>1. /\ hdf' = [i \in Units |-> IF same(i) THEN hdf[i] ELSE OpenedAs(config.hardfile[i])]
      /\ config' = [config EXCEPT !.hardfile = H]
      /\ drives' = DrivesTold(config) /\ GoTo(u, "NONE1")
      /\ UNCHANGED <<core, mmc, effects, osd, fs, t_hardfile, saved, disks, st, lost>>
  BY DEF OpenHardfiles, OsdReset, Charged
<1>2. WorldTypeOK /\ CursorInv(u)
  BY DEF MenuInv
<1>3. /\ DOMAIN config = {"drives", "ide", "hardfile"}
      /\ config.drives \in 0 .. 4 /\ config.ide \in BOOLEAN
      /\ config.hardfile \in [Units -> Hardfile]
  BY <1>2, ConfigType
<1>4. \A i \in Units : /\ config.hardfile[i] \in Hardfile
                       /\ Opened(config.hardfile[i]) \in Hardfile
                       /\ OpenedAs(Opened(config.hardfile[i])) = OpenedAs(config.hardfile[i])
                       /\ OpenedAs(config.hardfile[i]) \in Kinds \X (Names \cup {"HARDFILE"})
  BY <1>3, OpenedType DEF OpenedAs, Hardfile
<1>5. H \in [Units -> Hardfile]
  BY <1>4
<1>6. config' \in Config /\ config'.hardfile = H
  <2> HIDE DEF H
  <2>1. config \in Config
    BY <1>2 DEF WorldTypeOK
  <2> QED
    BY <1>1, <1>5, <2>1 DEF Config
<1>7. WorldTypeOK'
  <2>1. DOMAIN hdf' = Units
        /\ \A i \in Units : hdf'[i] \in Kinds \X (Names \cup {"HARDFILE"})
    BY <1>1, <1>2, <1>4 DEF WorldTypeOK
  <2> QED
    BY <1>1, <1>2, <1>3, <1>6, <2>1, ToldType DEF WorldTypeOK
<1>8. ASSUME ~lost PROVE AsOpened(config.hardfile)'
  <2>1. \A i \in Units : OpenedAs(t_hardfile[i]) = hdf[i]
    BY <1>8 DEF MenuInv, HardInv, AsOpened
  <2>2. ASSUME NEW i \in Units PROVE OpenedAs(H[i]) = hdf'[i]
    <3>1. CASE same(i)
      <4>1. OpenedAs(config.hardfile[i]) = OpenedAs(t_hardfile[i])
        BY <3>1 DEF SameHardfile, OpenedAs
      <4> QED
        BY <1>1, <2>1, <3>1, <4>1
    <3>2. CASE ~same(i)
      BY <1>1, <1>4, <3>2
    <3> QED
      BY <3>1, <3>2
  <2> QED
    BY <1>6, <2>2 DEF AsOpened
<1>9. Turns(u) /\ ui'.state = "NONE1"
  BY <1>1, <1>2, TurnGoTo
  DEF Ordinary, Selecting, HardfilePages, GoTo, CursorInv, Fields
<1> QED
  BY <1>1, <1>7, <1>8, <1>9, CloseInv

LEMMA RestoreInv ==
  ASSUME NEW u, MenuInv(u), Inside(u), Restore(u)
  PROVE  MenuInv(ui)'
<1>1. /\ config' = [config EXCEPT !.hardfile = t_hardfile]
      /\ Enter(u, "MAIN1", 3)
      /\ UNCHANGED <<core, mmc, osd, fs, t_hardfile, saved, hdf, drives, disks,
                     st, effects, lost>>
  BY DEF Restore
<1>2. config' \in Config /\ config'.hardfile = t_hardfile
  BY <1>1 DEF MenuInv, WorldTypeOK, Config
<1>3. WorldTypeOK'
  BY <1>1, <1>2 DEF MenuInv, WorldTypeOK
<1>4. Turns(u)
  BY <1>1, TurnEnter DEF MenuInv, Rows, Ordinary, Selecting, HardfilePages
<1> QED
  BY <1>1, <1>2, <1>3, <1>4, LeaveInv

(* The pages of the hard disks. *)
LEMMA HardfilesInv ==
  ASSUME NEW u, NEW c, MenuInv(u),
         \/ MENU_SETTINGS_HARDFILE1(u)
         \/ MENU_SETTINGS_HARDFILE2(u, c) \/ MENU_HARDFILE_SELECTED(u)
         \/ MENU_SYNTHRDB1(u) \/ MENU_SYNTHRDB2(u, c)
         \/ MENU_HARDFILE_EXIT(u) \/ MENU_HARDFILE_CHANGED1(u)
         \/ MENU_HARDFILE_CHANGED2(u, c)
  PROVE  MenuInv(ui)'
<1> USE DEF Apart, Ordinary, HardfilePages, Selecting, Rows
<1>0. CursorInv(u)
  BY DEF MenuInv
<1>1. CASE MENU_SETTINGS_HARDFILE1(u)
  <2>1. u.state = "SETTINGS_HARDFILE1" /\ Inside(u)
    BY <1>1 DEF MENU_SETTINGS_HARDFILE1, Inside
  <2>2. PICK rows : /\ Draw(u, "SETTINGS_HARDFILE1", "SETTINGS_HARDFILE2", rows)
                    /\ rows \subseteq {0, 1, 3, 5} \cup {FileRow(i) : i \in Units}
    BY <1>1 DEF MENU_SETTINGS_HARDFILE1
  <2>3. \A i \in Units : FileRow(i) \in Rows
    <3>1. Units \subseteq {0, 1}
      BY MenuAssumption
    <3> QED
      BY <3>1 DEF FileRow
  <2>4. rows \in SUBSET Rows
    BY <2>2, <2>3
  <2>5. Remains(u)
    BY <1>0, <2>2, <2>4, RemainDraw
  <2> QED
    BY <1>1, <2>1, <2>5, RemainOnly DEF MENU_SETTINGS_HARDFILE1
<1>2. CASE MENU_SETTINGS_HARDFILE2(u, c)
  <2>1. u.state = "SETTINGS_HARDFILE2" /\ Inside(u)
    BY <1>2 DEF MENU_SETTINGS_HARDFILE2, Inside
  <2>2. CASE OnlyMenu /\ (GoTo(u, "HARDFILE_EXIT") \/ Stay(u))
    BY <2>1, <2>2, RemainKept, RemainOnly
  <2>3. CASE Choose(u, "HDF", "HARDFILE_SELECTED", "SETTINGS_HARDFILE1")
    BY <2>1, <2>3, ChooseHardfileInv
  <2>4. CASE /\ Change(u, [config EXCEPT !.ide = ~@], "SETTINGS_HARDFILE1", 0)
             /\ Effect
    <3>1. [config EXCEPT !.ide = ~@] \in Config
      BY DEF MenuInv, WorldTypeOK, Config
    <3> QED
      BY <2>1, <2>4, <3>1, ChangeInv
  <2>5. ASSUME NEW i \in Units, Effect,
               Change(u, [config EXCEPT !.hardfile[i].kind = NextKind(@)],
                      "SETTINGS_HARDFILE1", u.sub)
        PROVE  MenuInv(ui)'
    <3>1. NextKind(config.hardfile[i].kind) \in Kinds
      BY ConfigType, KindType DEF MenuInv
    <3>2. [config EXCEPT !.hardfile[i].kind = NextKind(@)] \in Config
      BY <3>1, HardfileType DEF MenuInv, WorldTypeOK
    <3>3. u.sub \in Rows
      BY <1>0 DEF CursorInv
    <3> QED
      BY <2>1, <2>5, <3>2, <3>3, ChangeInv
  <2> QED
    BY <1>2, <2>2, <2>3, <2>4, <2>5 DEF MENU_SETTINGS_HARDFILE2, Otherwise
<1>3. CASE MENU_HARDFILE_SELECTED(u)
  <2>1. u.state = "HARDFILE_SELECTED" /\ Inside(u)
    BY <1>3 DEF MENU_HARDFILE_SELECTED, Inside
  <2>2. u.sub \in Rows /\ Charged /\ WorldTypeOK
    BY <1>3, <1>0 DEF CursorInv, MENU_HARDFILE_SELECTED, MenuInv
  <2>3. PICK i \in Units, n \in Names :
          LET named == [config EXCEPT !.hardfile[i].name = n,
                                      !.hardfile[i].present = TRUE]
          IN  \/ \E k \in {HDF_FILE, HDF_SYNTHRDB} :
                    Change(u, [named EXCEPT !.hardfile[i].kind = k],
                           "SETTINGS_HARDFILE1", u.sub)
              \/ Change(u, named, IF config.hardfile[i].kind = HDF_FILE
                                  THEN "SYNTHRDB1" ELSE "SYNTHRDB2_1", 0)
              \/ Change(u, [named EXCEPT !.hardfile[i].present = FALSE],
                        "SETTINGS_HARDFILE1", u.sub)
    BY <1>3, ZenonT(40) DEF MENU_HARDFILE_SELECTED
  <2> DEFINE named == [config EXCEPT !.hardfile[i].name = n,
                                     !.hardfile[i].present = TRUE]
  <2>4. named \in Config
    <3> DEFINE half == [config EXCEPT !.hardfile[i].name = n]
    <3>1. half \in Config
      BY <2>2, HardfileType DEF WorldTypeOK
    <3>2. named = [half EXCEPT !.hardfile[i].present = TRUE]
      OBVIOUS
    <3> HIDE DEF half, named
    <3> QED
      BY <3>1, <3>2, HardfileType
  <2> HIDE DEF named
  <2>5. /\ [named EXCEPT !.hardfile[i].present = FALSE] \in Config
        /\ \A k \in Kinds : [named EXCEPT !.hardfile[i].kind = k] \in Config
    BY <2>4, HardfileType
  <2>6. HDF_FILE \in Kinds /\ HDF_SYNTHRDB \in Kinds
    <3>1. Partitions \in 0 .. 4
      BY MenuAssumption
    <3> QED
      BY <3>1 DEF Kinds, HDF_FILE, HDF_SYNTHRDB
  <2>7. ASSUME NEW k \in {HDF_FILE, HDF_SYNTHRDB},
               Change(u, [named EXCEPT !.hardfile[i].kind = k],
                      "SETTINGS_HARDFILE1", u.sub)
        PROVE  MenuInv(ui)'
    BY <2>1, <2>2, <2>5, <2>6, <2>7, ChangeInv
  <2>8. ASSUME NEW page \in {"SYNTHRDB1", "SYNTHRDB2_1"}, Change(u, named, page, 0)
        PROVE  MenuInv(ui)'
    BY <2>1, <2>2, <2>4, <2>8, ChangeInv
  <2>9. ASSUME Change(u, [named EXCEPT !.hardfile[i].present = FALSE],
                      "SETTINGS_HARDFILE1", u.sub)
        PROVE  MenuInv(ui)'
    BY <2>1, <2>2, <2>5, <2>9, ChangeInv
  <2> QED
    BY <2>3, <2>7, <2>8, <2>9 DEF named
<1>4. CASE MENU_SYNTHRDB1(u)
  <2>1. u.state \in {"SYNTHRDB1", "SYNTHRDB2_1"} /\ Inside(u)
    BY <1>4 DEF MENU_SYNTHRDB1, Inside
  <2>2. Remains(u)
    BY <1>4, <1>0, <2>1, RemainDraw DEF MENU_SYNTHRDB1
  <2> QED
    BY <1>4, <2>1, <2>2, RemainOnly DEF MENU_SYNTHRDB1
<1>5. CASE MENU_SYNTHRDB2(u, c)
  <2>1. u.state = "SYNTHRDB2" /\ Inside(u)
    BY <1>5 DEF MENU_SYNTHRDB2, Inside
  <2>2. Remains(u)
    BY <1>5, <2>1, RemainKept DEF MENU_SYNTHRDB2, Otherwise
  <2> QED
    BY <1>5, <2>1, <2>2, RemainOnly DEF MENU_SYNTHRDB2
<1>6. CASE MENU_HARDFILE_EXIT(u)
  <2>1. u.state = "HARDFILE_EXIT" /\ Inside(u)
    BY <1>6 DEF MENU_HARDFILE_EXIT, Inside
  <2>2. OnlyMenu
    BY <1>6 DEF MENU_HARDFILE_EXIT
  <2>3. CASE Enter(u, "HARDFILE_CHANGED1", 1)
    BY <2>1, <2>2, <2>3, RemainKept, RemainOnly
  <2>4. CASE Enter(u, "MAIN1", 5) /\ config.hardfile = t_hardfile
    <3>1. Turns(u)
      BY <1>0, <2>4, TurnEnter
    <3>2. WorldTypeOK'
      BY <2>2 DEF MenuInv, WorldTypeOK, OnlyMenu, world
    <3>3. /\ config'.hardfile = t_hardfile /\ fs' = fs
          /\ UNCHANGED <<t_hardfile, hdf, lost>>
      BY <2>2, <2>4 DEF OnlyMenu, world
    <3> QED
      BY <2>1, <3>1, <3>2, <3>3, LeaveInv
  <2> QED
    BY <1>6, <2>3, <2>4 DEF MENU_HARDFILE_EXIT
<1>7. CASE MENU_HARDFILE_CHANGED1(u)
  <2>1. u.state = "HARDFILE_CHANGED1" /\ Inside(u)
    BY <1>7 DEF MENU_HARDFILE_CHANGED1, Inside
  <2>2. Remains(u)
    BY <1>7, <1>0, <2>1, RemainDraw DEF MENU_HARDFILE_CHANGED1
  <2> QED
    BY <1>7, <2>1, <2>2, RemainOnly DEF MENU_HARDFILE_CHANGED1
<1>8. CASE MENU_HARDFILE_CHANGED2(u, c)
  <2>1. u.state = "HARDFILE_CHANGED2" /\ Inside(u)
    BY <1>8 DEF MENU_HARDFILE_CHANGED2, Inside
  <2>2. CASE OpenHardfiles(u)
    BY <2>1, <2>2, OpenHardfilesInv
  <2>3. CASE Restore(u)
    BY <2>1, <2>3, RestoreInv
  <2>4. CASE OnlyMenu /\ Stay(u)
    BY <2>1, <2>4, RemainKept, RemainOnly
  <2> QED
    BY <1>8, <2>2, <2>3, <2>4 DEF MENU_HARDFILE_CHANGED2, Otherwise
<1> QED
  BY <1>1, <1>2, <1>3, <1>4, <1>5, <1>6, <1>7, <1>8

(* The page of an 8 bit core: its rows are those of the strings. *)
LEMMA TurnRows ==
  ASSUME NEW u, CursorInv(u),
         \/ /\ u.state \in {"8BIT_MAIN1", "8BIT_MAIN2"}
            /\ GoTo(u, "8BIT_MAIN1") \/ Stay(u)
         \/ Enter(u, "8BIT_MAIN1", 0)
  PROVE  Turns(u)
<1>1. CASE /\ u.state \in {"8BIT_MAIN1", "8BIT_MAIN2"}
           /\ GoTo(u, "8BIT_MAIN1") \/ Stay(u)
  <2>1. /\ ui'.state \in {"8BIT_MAIN1", "8BIT_MAIN2"} /\ ui'.sub = u.sub
        /\ ui'.mask = u.mask /\ ui'.parent = u.parent /\ DOMAIN ui' = Fields
    BY <1>1 DEF GoTo, Stay, CursorInv, Fields
  <2>2. RowFits(ui'.state, ui'.sub)
    BY <1>1, <2>1 DEF CursorInv, RowFits
  <2> QED
    BY <2>1, <2>2 DEF Turns, CursorInv
<1>2. CASE Enter(u, "8BIT_MAIN1", 0)
  <2>1. /\ ui'.state = "8BIT_MAIN1" /\ ui'.sub = 0
        /\ ui'.mask = u.mask /\ ui'.parent = u.parent /\ DOMAIN ui' = Fields
    BY <1>2 DEF Enter, CursorInv, Fields
  <2>2. RowFits(ui'.state, ui'.sub) /\ 0 \in Rows
    BY <2>1 DEF RowFits, Rows
  <2> QED
    BY <2>1, <2>2 DEF Turns, CursorInv
<1> QED
  BY <1>1, <1>2

LEMMA StringRows ==
  /\ Len(Strings) \in Nat /\ DOMAIN Strings = 1 .. Len(Strings)
  /\ LastRow \in Int /\ LastRow <= 7
<1>1. Strings \in Seq([kind : {"F", "S", "T", "O"}, ext : STRING])
  BY MenuAssumption
<1>2. Len(Strings) \in Nat /\ DOMAIN Strings = 1 .. Len(Strings)
  BY <1>1
<1>4. Len(Strings) <= 8 /\ (HasFile => Len(Strings) <= 7)
  BY MenuAssumption DEF HasFile
<1>5. LastRow = Len(Strings) \/ LastRow = Len(Strings) - 1
  BY DEF LastRow
<1>6. HasFile => LastRow = Len(Strings)
  BY DEF LastRow
<1>7. ~HasFile => LastRow = Len(Strings) - 1
  BY DEF LastRow
<1>8. LastRow \in Int /\ LastRow <= 7
  BY <1>2, <1>4, <1>6, <1>7
<1> QED
  BY <1>2, <1>8

(* The Archimedes and the 8 bit cores. *)
LEMMA CoresInv ==
  ASSUME NEW u, NEW c, MenuInv(u),
         \/ MENU_ARCHIE_MAIN1(u) \/ MENU_ARCHIE_MAIN2(u, c)
         \/ MENU_ARCHIE_MAIN_FILE_SELECTED(u) \/ MENU_8BIT_MAIN1(u)
         \/ MENU_8BIT_MAIN2(u, c) \/ MENU_8BIT_MAIN_SELECTED(u)
         \/ MENU_8BIT_SYSTEM1(u) \/ MENU_8BIT_SYSTEM2(u, c)
  PROVE  MenuInv(ui)'
<1> USE DEF Apart, Ordinary, HardfilePages, Selecting, Rows
<1>0. CursorInv(u)
  BY DEF MenuInv
<1>1. CASE MENU_ARCHIE_MAIN1(u)
  BY <1>1, <1>0, PlainInv, TurnDraw
  DEF MENU_ARCHIE_MAIN1
<1>2. CASE MENU_ARCHIE_MAIN2(u, c)
  <2>1. u.state = "ARCHIE_MAIN2" /\ Apart(u)
    BY <1>2 DEF MENU_ARCHIE_MAIN2
  <2>2. CASE OnlyMenu /\ (Enter(u, "FIRMWARE1", 1) \/ GoTo(u, "NONE1") \/ Stay(u))
    BY <1>0, <2>1, <2>2, PlainInv, TurnEnter, TurnGoTo, TurnStay
  <2>3. CASE Choose(u, "ROM", "ARCHIE_MAIN_FILE_SELECTED", "ARCHIE_MAIN1")
    BY <2>1, <2>3, ChooseInv DEF RowFits, Exts, Literals
  <2>4. CASE Toggle(u, "archie", u.sub, "ARCHIE_MAIN1", "ADF", "ARCHIE_MAIN_FILE_SELECTED")
    BY <2>1, <2>4, ToggleInv DEF RowFits, Literals
  <2> QED
    BY <1>2, <2>2, <2>3, <2>4 DEF MENU_ARCHIE_MAIN2, Otherwise
<1>3. CASE MENU_ARCHIE_MAIN_FILE_SELECTED(u)
  <2>1. u.state = "ARCHIE_MAIN_FILE_SELECTED" /\ Apart(u)
    BY <1>3 DEF MENU_ARCHIE_MAIN_FILE_SELECTED
  <2>2. CASE u.sub \in {0, 1} /\ Fill(u, "archie", u.sub, "ARCHIE_MAIN1")
    BY <2>1, <2>2, FillInv
  <2>3. CASE GoTo(u, "ARCHIE_MAIN1") /\ OnlyMenu
    BY <1>0, <2>1, <2>3, PlainInv, TurnGoTo
  <2> QED
    BY <1>3, <2>2, <2>3 DEF MENU_ARCHIE_MAIN_FILE_SELECTED
<1>4. CASE MENU_8BIT_MAIN1(u)
  <2>1. u.state = "8BIT_MAIN1" /\ Apart(u)
    BY <1>4 DEF MENU_8BIT_MAIN1
  <2>2. PICK rows : /\ Draw(u, "8BIT_MAIN1", "8BIT_MAIN2", rows)
                    /\ rows = IF HasFile THEN 0 .. Len(Strings)
                              ELSE 0 .. Len(Strings) - 1
    BY <1>4 DEF MENU_8BIT_MAIN1
  <2>3. rows \subseteq Rows /\ \A r \in rows : r <= LastRow
    BY <2>2, StringRows DEF LastRow
  <2>4. RowFits("8BIT_MAIN2", u.sub) /\ u.sub \in Rows
    BY <1>0, <2>1 DEF CursorInv, RowFits
  <2>5. Turns(u)
    BY <2>2, <2>3, <2>4 DEF Draw, Turns, Fields, NoParents
  <2> QED
    BY <1>4, <2>1, <2>5, PlainInv DEF MENU_8BIT_MAIN1
<1>5. CASE MENU_8BIT_MAIN2(u, c)
  <2>1. u.state = "8BIT_MAIN2" /\ Apart(u)
    BY <1>5 DEF MENU_8BIT_MAIN2
  <2>2. RowFits("8BIT_MAIN1", u.sub) /\ (u.sub = 0 \/ u.sub <= LastRow) /\ u.sub \in Rows
    BY <1>0, <2>1 DEF CursorInv, RowFits
  <2>3. CASE OnlyMenu /\ (GoTo(u, "8BIT_MAIN1") \/ Stay(u))
    BY <1>0, <2>1, <2>3, PlainInv, TurnRows
  <2>4. CASE OnlyMenu /\ (GoTo(u, "NONE1") \/ Enter(u, "8BIT_SYSTEM1", 0))
    BY <1>0, <2>1, <2>4, PlainInv, TurnEnter, TurnGoTo
  <2>5. CASE Choose(u, FirstExt, "8BIT_MAIN_FILE_SELECTED", "8BIT_MAIN1")
    BY <2>1, <2>2, <2>5, ChooseInv DEF RowFits, Exts
  <2>6. ASSUME NEW select \in {"8BIT_MAIN_FILE_SELECTED", "8BIT_MAIN_IMAGE_SELECTED"},
               ~(HasFile /\ u.sub = 0), Strings # <<>>,
               StringOf(u.sub).kind \in {"F", "S"},
               SelectFile(u, "ext", StringOf(u.sub).ext, select, "8BIT_MAIN1"),
               NoEffect, UNCHANGED <<osd, lost>>
        PROVE  MenuInv(ui)'
    <3>1. Len(Strings) > 0
      <4>1. Strings \in Seq([kind : {"F", "S", "T", "O"}, ext : STRING])
        BY MenuAssumption
      <4> QED
        BY <2>6, <4>1
    <3>2. \E i \in DOMAIN Strings : StringOf(u.sub) = Strings[i]
      BY <2>2, <2>6, <3>1, StringRows DEF StringOf, LastRow
    <3>3. \E i \in DOMAIN Strings :
            Strings[i].kind \in {"F", "S"} /\ StringOf(u.sub).ext = Strings[i].ext
      BY <2>6, <3>2
    <3>4. RowFits(select, u.sub)
      BY DEF RowFits
    <3> QED
      BY <2>1, <2>2, <2>6, <3>3, <3>4, SelectInv
  <2> QED
    BY <1>5, <2>3, <2>4, <2>5, <2>6 DEF MENU_8BIT_MAIN2, Otherwise
<1>6. CASE MENU_8BIT_MAIN_SELECTED(u)
  BY <1>6, <1>0, PlainInv, TurnGoTo
  DEF MENU_8BIT_MAIN_SELECTED
<1>7. CASE MENU_8BIT_SYSTEM1(u)
  BY <1>7, <1>0, PlainInv, TurnDraw
  DEF MENU_8BIT_SYSTEM1
<1>8. CASE MENU_8BIT_SYSTEM2(u, c)
  <2>1. u.state = "8BIT_SYSTEM2" /\ Apart(u)
    BY <1>8 DEF MENU_8BIT_SYSTEM2
  <2>2. OnlyMenu
    BY <1>8 DEF MENU_8BIT_SYSTEM2
  <2>3. Turns(u)
    BY <1>8, <1>0, <2>1, TurnEnter, TurnGoTo, TurnStay, TurnRows
    DEF MENU_8BIT_SYSTEM2, Otherwise
  <2> QED
    BY <2>1, <2>2, <2>3, PlainInv
<1> QED
  BY <1>1, <1>2, <1>3, <1>4, <1>5, <1>6, <1>7, <1>8

LEMMA CartridgeInv ==
  ASSUME NEW u, MenuInv(u), Apart(u), NEW b \in BOOLEAN, Cartridge(u, b),
         Effect \/ Charged
  PROVE  MenuInv(ui)'
<1>1. /\ st' = [st EXCEPT !.cart = b] /\ GoTo(u, "MIST_SYSTEM1")
      /\ UNCHANGED <<osd, fs, config, t_hardfile, saved, hdf, drives, disks, lost>>
  BY DEF Cartridge
<1>2. Turns(u)
  BY <1>1, TurnGoTo DEF MenuInv, Ordinary, Selecting, HardfilePages
<1>3. Spares
  BY <1>1, SpareSt DEF MenuInv
<1> QED
  BY <1>2, <1>3, TurnInv

LEMMA StorageRow ==
  ASSUME NEW row, row \in ({0, 1} \cup 4 .. 5) \ {StorageExit}
  PROVE  DiskOf(row) \in 0 .. 3
  BY DEF StorageExit, DiskOf

(* The Atari ST. *)
LEMMA MistInv ==
  ASSUME NEW u, NEW c, MenuInv(u),
         \/ MENU_MIST_MAIN1(u) \/ MENU_MIST_MAIN2(u, c)
         \/ MENU_MIST_MAIN_FILE_SELECTED(u) \/ MENU_MIST_STORAGE1(u)
         \/ MENU_MIST_STORAGE2(u, c)
         \/ MENU_MIST_STORAGE_FILE_SELECTED(u) \/ MENU_MIST_SYSTEM1(u)
         \/ MENU_MIST_SYSTEM2(u, c)
         \/ MENU_MIST_SYSTEM_FILE_SELECTED(u) \/ MENU_MIST_VIDEO1(u)
         \/ MENU_MIST_VIDEO2(u, c) \/ MENU_MIST_VIDEO_ADJUST1(u)
         \/ MENU_MIST_VIDEO_ADJUST2(u, c)
  PROVE  MenuInv(ui)'
<1> USE DEF Apart, Ordinary, HardfilePages, Selecting, Rows
<1>0. CursorInv(u)
  BY DEF MenuInv
<1>1. CASE MENU_MIST_MAIN1(u)
  BY <1>1, <1>0, PlainInv, TurnDraw
  DEF MENU_MIST_MAIN1
<1>2. CASE MENU_MIST_MAIN2(u, c)
  <2>1. u.state = "MIST_MAIN2" /\ Apart(u)
    BY <1>2 DEF MENU_MIST_MAIN2
  <2>2. CASE Toggle(u, "st", 0, "MIST_MAIN1", "ST ", "MIST_MAIN_FILE_SELECTED")
    BY <2>1, <2>2, ToggleInv DEF RowFits, Literals
  <2>3. CASE OnlyMenu /\ \/ GoTo(u, "MIST_MAIN1") \/ Enter(u, MistPage(u.sub), 0)
                         \/ Enter(u, "FIRMWARE1", 1) \/ GoTo(u, "NONE1") \/ Stay(u)
    BY <1>0, <2>1, <2>3, PlainInv, TurnEnter, TurnGoTo, TurnStay DEF MistPage
  <2> QED
    BY <1>2, <2>2, <2>3 DEF MENU_MIST_MAIN2, Otherwise
<1>3. CASE MENU_MIST_MAIN_FILE_SELECTED(u)
  <2>1. u.state = "MIST_MAIN_FILE_SELECTED" /\ Apart(u)
    BY <1>3 DEF MENU_MIST_MAIN_FILE_SELECTED
  <2> QED
    BY <1>3, <2>1, FillInv DEF MENU_MIST_MAIN_FILE_SELECTED
<1>4. CASE MENU_MIST_STORAGE1(u)
  BY <1>4, <1>0, PlainInv, TurnDraw
  DEF MENU_MIST_STORAGE1, StorageExit
<1>5. CASE MENU_MIST_STORAGE2(u, c)
  <2>1. u.state = "MIST_STORAGE2" /\ Apart(u)
    BY <1>5 DEF MENU_MIST_STORAGE2
  <2>2. CASE OnlyMenu /\ (GoTo(u, "MIST_STORAGE1") \/ Enter(u, "MIST_MAIN1", 2) \/ Stay(u))
    BY <1>0, <2>1, <2>2, PlainInv, TurnEnter, TurnGoTo, TurnStay
  <2>3. CASE /\ st' = [st EXCEPT !.direct = ~@] /\ GoTo(u, "MIST_STORAGE1") /\ Effect
             /\ UNCHANGED <<osd, fs, config, t_hardfile, saved, hdf, drives, disks, lost>>
    <3>1. Spares
      BY <2>3, SpareSt DEF MenuInv, WorldTypeOK
    <3> QED
      BY <1>0, <2>1, <2>3, <3>1, TurnGoTo, TurnInv
  <2>4. ASSUME u.sub \in ({0, 1} \cup 4 .. 5) \ {StorageExit},
               NEW ext \in {"ST ", "HD "},
               Toggle(u, "st", DiskOf(u.sub), "MIST_STORAGE1", ext,
                      "MIST_STORAGE_FILE_SELECTED")
        PROVE  MenuInv(ui)'
    <3>1. DiskOf(u.sub) \in 0 .. 3
      BY <2>4, StorageRow
    <3> QED
      BY <2>1, <2>4, <3>1, ToggleInv DEF RowFits, Literals
  <2> QED
    BY <1>5, <2>2, <2>3, <2>4 DEF MENU_MIST_STORAGE2, Otherwise
<1>6. CASE MENU_MIST_STORAGE_FILE_SELECTED(u)
  <2>1. u.state = "MIST_STORAGE_FILE_SELECTED" /\ Apart(u)
    BY <1>6 DEF MENU_MIST_STORAGE_FILE_SELECTED
  <2>2. DiskOf(u.sub) \in 0 .. 3
    BY <1>0, <2>1 DEF CursorInv, RowFits
  <2> QED
    BY <1>6, <2>1, <2>2, FillInv DEF MENU_MIST_STORAGE_FILE_SELECTED
<1>7. CASE MENU_MIST_SYSTEM1(u)
  BY <1>7, <1>0, PlainInv, TurnDraw
  DEF MENU_MIST_SYSTEM1
<1>8. CASE MENU_MIST_SYSTEM2(u, c)
  <2>1. u.state = "MIST_SYSTEM2" /\ Apart(u)
    BY <1>8 DEF MENU_MIST_SYSTEM2
  <2>2. CASE OnlyMenu /\ \/ GoTo(u, "MIST_SYSTEM1") \/ GoTo(u, "NONE1")
                         \/ Enter(u, "MIST_MAIN1", 3) \/ Stay(u)
    BY <1>0, <2>1, <2>2, PlainInv, TurnEnter, TurnGoTo, TurnStay
  <2>3. CASE Choose(u, "IMG", "MIST_SYSTEM_FILE_SELECTED", "MIST_SYSTEM1")
    BY <2>1, <2>3, ChooseInv DEF RowFits, Exts, Literals
  <2>4. CASE Cartridge(u, FALSE) /\ Effect
    BY <2>1, <2>4, CartridgeInv
  <2> QED
    BY <1>8, <2>2, <2>3, <2>4 DEF MENU_MIST_SYSTEM2, Otherwise
<1>9. CASE MENU_MIST_SYSTEM_FILE_SELECTED(u)
  <2>1. u.state = "MIST_SYSTEM_FILE_SELECTED" /\ Apart(u)
    BY <1>9 DEF MENU_MIST_SYSTEM_FILE_SELECTED
  <2>2. CASE GoTo(u, "MIST_SYSTEM1") /\ OnlyMenu
    BY <1>0, <2>1, <2>2, PlainInv, TurnGoTo
  <2>3. CASE Cartridge(u, TRUE) /\ Charged
    BY <2>1, <2>3, CartridgeInv
  <2> QED
    BY <1>9, <2>2, <2>3 DEF MENU_MIST_SYSTEM_FILE_SELECTED
<1>10. CASE MENU_MIST_VIDEO1(u)
  BY <1>10, <1>0, PlainInv, TurnDraw
  DEF MENU_MIST_VIDEO1
<1>11. CASE MENU_MIST_VIDEO2(u, c)
  BY <1>11, <1>0, PlainInv, TurnEnter, TurnGoTo, TurnStay
  DEF MENU_MIST_VIDEO2, Otherwise, Leaves
<1>12. CASE MENU_MIST_VIDEO_ADJUST1(u)
  BY <1>12, <1>0, PlainInv, TurnDraw
  DEF MENU_MIST_VIDEO_ADJUST1
<1>13. CASE MENU_MIST_VIDEO_ADJUST2(u, c)
  BY <1>13, <1>0, PlainInv, TurnEnter, TurnGoTo, TurnStay
  DEF MENU_MIST_VIDEO_ADJUST2, Otherwise, Leaves
<1> QED
  BY <1>1, <1>2, <1>3, <1>4, <1>5, <1>6, <1>7, <1>8, <1>9, <1>10, <1>11,
     <1>12, <1>13

-----------------------------------------------------------------------------
(* The closed menu, the file selector and the firmware.                    *)

LEMMA NoneInv ==
  ASSUME NEW u, MenuInv(u), MENU_NONE1(u)
  PROVE  MenuInv(ui)'
<1>1. /\ u.state = "NONE1" /\ ui' = [u EXCEPT !.state = "NONE2", !.mask = {}]
      /\ osd' = "off" /\ UNCHANGED <<core, mmc, world, effects, fs, lost>>
  BY DEF MENU_NONE1, NoEffect
<1>2. /\ ui'.state = "NONE2" /\ ui'.mask = {} /\ ui'.sub = u.sub
      /\ ui'.parent = u.parent /\ DOMAIN ui' = Fields
  BY <1>1 DEF MenuInv, CursorInv, Fields
<1>3. WorldTypeOK'
  BY <1>1 DEF MenuInv, WorldTypeOK, world
<1>4. CursorInv(ui)'
  BY <1>2 DEF MenuInv, CursorInv, RowFits, Selecting
<1>5. HardInv(ui)'
  <2>1. ~Inside(u) /\ ~Inside(ui)'
    BY <1>1, <1>2 DEF Inside, Selecting, HardfilePages
  <2>2. SelectorInv'
    BY <1>1 DEF MenuInv, HardInv, SelectorInv
  <2>3. AsOpened(config.hardfile)' <=> AsOpened(config.hardfile)
    BY <1>1 DEF AsOpened, world
  <2> QED
    BY <1>1, <1>2, <2>1, <2>2, <2>3 DEF MenuInv, HardInv
<1>6. OneList => ListInv'
  BY <1>1 DEF MenuInv, ListInv, Wanted
<1> QED
  BY <1>3, <1>4, <1>5, <1>6 DEF MenuInv

LEMMA OpenInv ==
  ASSUME NEW u, NEW c, MenuInv(u), MENU_NONE2(u, c)
  PROVE  MenuInv(ui)'
<1>1. /\ u.state = "NONE2" /\ UNCHANGED <<core, mmc, world, effects, fs, lost>>
      /\ Enter(u, MainPage, 0) \/ Stay(u)
      /\ osd' \in {osd, "menu"}
  BY DEF MENU_NONE2, NoEffect, Otherwise
<1>2. Spares
  <2>1. osd' \in {"off", "menu", "message"}
    BY <1>1 DEF MenuInv, WorldTypeOK
  <2>2. UNCHANGED <<core, mmc, fs, config, t_hardfile, saved, hdf, drives, disks,
                    st, effects, lost>>
    BY <1>1 DEF world
  <2>3. WorldTypeOK'
    BY <2>1, <2>2, ZenonT(40) DEF MenuInv, WorldTypeOK
  <2> QED
    BY <2>2, <2>3 DEF Spares
<1>3. Turns(u)
  <2>1. MainPage = "8BIT_MAIN1" \/ Ordinary(MainPage)
    BY DEF MainPage, Ordinary, Selecting, HardfilePages
  <2>2. CursorInv(u) /\ 0 \in Rows /\ Ordinary(u.state)
    BY <1>1 DEF MenuInv, Rows, Ordinary, Selecting, HardfilePages
  <2> QED
    BY <1>1, <2>1, <2>2, TurnEnter, TurnRows, TurnStay
<1>4. Apart(u)
  BY <1>1 DEF Apart, Selecting, HardfilePages
<1> QED
  BY <1>2, <1>3, <1>4, TurnInv

(* Files are looked through: the selector remains. *)
LEMMA LookInv ==
  ASSUME NEW u, MenuInv(u), u.state \in Selecting,
         DOMAIN ui' = Fields, ui'.state \in Selecting, ui'.sub = u.sub,
         ui'.parent = u.parent, ui'.mask \in {{}, u.mask},
         fs' = fs \/ \E list \in {fs.list, Wanted} : fs' = [fs EXCEPT !.list = list],
         UNCHANGED <<core, mmc, osd, world, effects, lost>>
  PROVE  MenuInv(ui)'
<1>2. /\ fs'.ptr = fs.ptr /\ fs'.buffer = fs.buffer
      /\ fs'.list \in {fs.list, Wanted}
      /\ fs'.select = fs.select /\ fs'.cancel = fs.cancel
      /\ DOMAIN fs' = {"ptr", "buffer", "list", "select", "cancel"}
  <2>1. CASE fs' = fs
    BY <2>1 DEF MenuInv, WorldTypeOK
  <2>2. CASE \E list \in {fs.list, Wanted} : fs' = [fs EXCEPT !.list = list]
    BY <2>2 DEF MenuInv, WorldTypeOK
  <2> QED
    BY <2>1, <2>2
<1>3. WorldTypeOK'
  <2>1. Wanted \in Exts \cup {""}
    BY DEF MenuInv, WorldTypeOK, Wanted, Points
  <2>2. fs'.list \in Exts \cup {""}
    BY <1>2, <2>1 DEF MenuInv, WorldTypeOK
  <2> QED
    BY <1>2, <2>2 DEF MenuInv, WorldTypeOK, world
<1>4. CursorInv(ui)'
  <2>1. \A s : RowFits(s, u.sub)' <=> RowFits(s, u.sub)
    BY DEF RowFits, DiskOf, world
  <2>2. RowFits(ui.state, ui.sub)'
    BY DEF RowFits, Selecting
  <2>3. /\ u.sub \in Rows /\ u.mask \subseteq Rows /\ u.parent \notin NoParents
        /\ u.parent = "8BIT_MAIN1" => \A r \in u.mask : r <= LastRow
        /\ RowFits(fs.select, u.sub) /\ RowFits(fs.cancel, u.sub)
    BY DEF MenuInv, CursorInv
  <2> QED
    BY <1>2, <2>1, <2>2, <2>3 DEF CursorInv
<1>5. HardInv(ui)'
  <2>1. Inside(ui)' <=> Inside(u)
    BY <1>2 DEF Inside, Selecting, HardfilePages
  <2>2. SelectorInv'
    BY <1>2 DEF MenuInv, HardInv, SelectorInv
  <2>3. /\ AsOpened(config.hardfile)' <=> AsOpened(config.hardfile)
        /\ AsOpened(t_hardfile)' <=> AsOpened(t_hardfile)
    BY DEF AsOpened, world
  <2>4. u.state \notin {"NONE1", "SETTINGS_HARDFILE1"}
    BY DEF Selecting
  <2> QED
    BY <2>1, <2>2, <2>3, <2>4 DEF MenuInv, HardInv
<1>6. OneList => ListInv'
  BY <1>2 DEF MenuInv, ListInv, Wanted
<1> QED
  BY <1>3, <1>4, <1>5, <1>6 DEF MenuInv

(* A file was selected, or not: back to the page that asked. *)
LEMMA SelectedInv ==
  ASSUME NEW u, MenuInv(u), u.state \in Selecting, NEW s \in {fs.select, fs.cancel},
         GoTo([u EXCEPT !.mask = {}], s), Effect \/ Charged,
         UNCHANGED <<osd, fs, world, lost>>
  PROVE  MenuInv(ui)'
<1>1. /\ ui'.state = s /\ ui'.mask = {} /\ ui'.sub = u.sub
      /\ ui'.parent = u.parent /\ DOMAIN ui' = Fields
  BY DEF MenuInv, CursorInv, Fields, GoTo
<1>2. WorldTypeOK'
  <2>1. effects' \in 0 .. MaxEffects /\ UNCHANGED <<core, mmc>>
    BY EffectType DEF MenuInv
  <2> QED
    BY <2>1 DEF MenuInv, WorldTypeOK, world
<1>3. CursorInv(ui)'
  <2>1. \A t : RowFits(t, u.sub)' <=> RowFits(t, u.sub)
    BY DEF RowFits, DiskOf, world
  <2>2. /\ u.sub \in Rows /\ u.parent \notin NoParents
        /\ RowFits(fs.select, u.sub) /\ RowFits(fs.cancel, u.sub)
    BY DEF MenuInv, CursorInv
  <2> QED
    BY <1>1, <2>1, <2>2 DEF CursorInv
<1>4. HardInv(ui)'
  <2>1. Inside(ui)' <=> Inside(u)
    BY <1>1 DEF Inside, Selecting, HardfilePages, MenuInv, HardInv, SelectorInv
  <2>2. SelectorInv'
    BY DEF MenuInv, HardInv, SelectorInv
  <2>3. /\ AsOpened(config.hardfile)' <=> AsOpened(config.hardfile)
        /\ AsOpened(t_hardfile)' <=> AsOpened(t_hardfile)
    BY DEF AsOpened, world
  <2> QED
    BY <1>1, <2>1, <2>2, <2>3 DEF MenuInv, HardInv
<1>5. OneList => ListInv'
  BY DEF MenuInv, ListInv, Wanted
<1> QED
  BY <1>2, <1>3, <1>4, <1>5 DEF MenuInv

(* The firmware, the core and the messages. *)
LEMMA FirmwareInv ==
  ASSUME NEW u, NEW c, MenuInv(u),
         \/ MENU_FILE_SELECT1(u) \/ MENU_FILE_SELECT2(u, c)
         \/ MENU_FIRMWARE1(u) \/ MENU_FIRMWARE2(u, c)
         \/ MENU_FIRMWARE_CORE_FILE_SELECTED(u)
         \/ MENU_FIRMWARE_UPDATE1(u) \/ MENU_FIRMWARE_UPDATE2(u, c)
         \/ MENU_FIRMWARE_UPDATING1(u) \/ MENU_FIRMWARE_UPDATING2(u)
         \/ MENU_FIRMWARE_UPDATE_ERROR1(u)
         \/ MENU_FIRMWARE_UPDATE_ERROR2(u, c) \/ MENU_ERROR(u, c)
         \/ MENU_INFO(u, c)
  PROVE  MenuInv(ui)'
<1> USE DEF Apart, Ordinary, HardfilePages, Selecting, Rows
<1>0. CursorInv(u)
  BY DEF MenuInv
<1>1. CASE MENU_FILE_SELECT1(u)
  <2>1. u.state \in Selecting /\ DOMAIN u = Fields
    BY <1>1, <1>0 DEF MENU_FILE_SELECT1, CursorInv
  <2>2. /\ DOMAIN ui' = Fields /\ ui'.state \in Selecting /\ ui'.sub = u.sub
        /\ ui'.parent = u.parent /\ ui'.mask \in {{}, u.mask}
    BY <1>1, <2>1 DEF MENU_FILE_SELECT1, GoTo, Fields
  <2>3. UNCHANGED <<core, mmc, osd, world, effects, lost>> /\ fs' = fs
    BY <1>1 DEF MENU_FILE_SELECT1, OnlyMenu
  <2> QED
    BY <2>1, <2>2, <2>3, LookInv
<1>2. CASE MENU_FILE_SELECT2(u, c)
  <2> DEFINE page == [u EXCEPT !.mask = {}]
  <2>1. u.state \in Selecting /\ DOMAIN u = Fields /\ UNCHANGED <<osd, world, lost>>
    BY <1>2, <1>0 DEF MENU_FILE_SELECT2, CursorInv
  <2>2. CASE GoTo(page, fs.select) /\ Effect /\ UNCHANGED fs
    BY <2>1, <2>2, SelectedInv
  <2>3. CASE GoTo(page, fs.cancel) /\ UNCHANGED <<core, mmc, fs, effects>>
    BY <2>1, <2>3, SelectedInv DEF Charged
  <2>4. CASE Stay(page) /\ UNCHANGED <<core, mmc, fs, effects>>
    <3>1. /\ DOMAIN ui' = Fields /\ ui'.state \in Selecting /\ ui'.sub = u.sub
          /\ ui'.parent = u.parent /\ ui'.mask \in {{}, u.mask}
      BY <2>1, <2>4 DEF Stay, Fields
    <3> QED
      BY <2>1, <2>4, <3>1, LookInv
  <2>5. CASE Browse(u) /\ UNCHANGED <<core, mmc, effects>>
    <3>1. /\ DOMAIN ui' = Fields /\ ui'.state \in Selecting /\ ui'.sub = u.sub
          /\ ui'.parent = u.parent /\ ui'.mask \in {{}, u.mask}
      BY <2>1, <2>5 DEF Browse, Enter, Fields
    <3> QED
      BY <2>1, <2>5, <3>1, LookInv DEF Browse
  <2> QED
    BY <1>2, <2>2, <2>3, <2>4, <2>5 DEF MENU_FILE_SELECT2
<1>3. CASE MENU_FIRMWARE1(u)
  <2>1. 0 .. CoreRow + 1 \subseteq Rows
    BY DEF CoreRow
  <2> QED
    BY <1>3, <1>0, <2>1, PlainInv, TurnDraw DEF MENU_FIRMWARE1
<1>4. CASE MENU_FIRMWARE2(u, c)
  <2>1. u.state = "FIRMWARE2" /\ Apart(u)
    BY <1>4 DEF MENU_FIRMWARE2
  <2>2. ASSUME OnlyMenu, \/ Back(u) \/ Stay(u)
                         \/ \E page \in {"FIRMWARE_UPDATE1", "FIRMWARE_UPDATE_ERROR1"} :
                               Enter(u, page, 1)
        PROVE  MenuInv(ui)'
    <3>1. Turns(u)
      BY <1>0, <2>1, <2>2, TurnEnter, TurnStay DEF Back
    <3> QED
      BY <2>1, <2>2, <3>1, PlainInv
  <2>3. CASE Choose(u, "RBF", "FIRMWARE_CORE_FILE_SELECTED", "FIRMWARE1")
    BY <2>1, <2>3, ChooseInv DEF RowFits, Exts, Literals
  <2> QED
    BY <1>4, <2>2, <2>3 DEF MENU_FIRMWARE2, Otherwise
<1>5. CASE MENU_FIRMWARE_CORE_FILE_SELECTED(u)
  <2>1. u.state = "FIRMWARE_CORE_FILE_SELECTED" /\ Apart(u)
    BY <1>5 DEF MENU_FIRMWARE_CORE_FILE_SELECTED
  <2>2. /\ osd' = "off" /\ GoTo(u, "NONE1") /\ core' \in Cores
        /\ UNCHANGED <<mmc, fs, t_hardfile, saved, st, effects>>
    BY <1>5 DEF MENU_FIRMWARE_CORE_FILE_SELECTED
  <2>3. CASE LoadConfiguration(0) /\ disks' = [disks EXCEPT !.amiga = {}]
    <3>1. effects' \in 0 .. MaxEffects
      BY <2>2 DEF MenuInv, WorldTypeOK
    <3> QED
      BY <2>2, <2>3, <3>1, LoadedInv
  <2>4. CASE UNCHANGED <<config, hdf, drives, disks, lost>>
    <3>1. Turns(u)
      BY <1>0, <2>2, TurnGoTo
    <3>2. Spares
      BY <2>2, <2>4 DEF MenuInv, WorldTypeOK, Spares
    <3> QED
      BY <2>1, <3>1, <3>2, TurnInv
  <2> QED
    BY <1>5, <2>3, <2>4 DEF MENU_FIRMWARE_CORE_FILE_SELECTED
<1>6. CASE MENU_FIRMWARE_UPDATE1(u)
  BY <1>6, <1>0, PlainInv, TurnDraw
  DEF MENU_FIRMWARE_UPDATE1
<1>7. CASE MENU_FIRMWARE_UPDATE2(u, c)
  BY <1>7, <1>0, PlainInv, TurnEnter, TurnStay
  DEF MENU_FIRMWARE_UPDATE2, Otherwise
<1>8. CASE MENU_FIRMWARE_UPDATING1(u)
  BY <1>8, <1>0, PlainInv, TurnDraw
  DEF MENU_FIRMWARE_UPDATING1
<1>9. CASE MENU_FIRMWARE_UPDATING2(u)
  BY <1>9, <1>0, PlainInv, TurnEnter
  DEF MENU_FIRMWARE_UPDATING2
<1>10. CASE MENU_FIRMWARE_UPDATE_ERROR1(u)
  <2>1. u.state = "FIRMWARE_UPDATE_ERROR1" /\ Apart(u)
    BY <1>10 DEF MENU_FIRMWARE_UPDATE_ERROR1
  <2>2. u.mask \in SUBSET Rows
    BY <1>0 DEF CursorInv
  <2>3. Turns(u)
    BY <1>10, <1>0, <2>2, TurnDraw DEF MENU_FIRMWARE_UPDATE_ERROR1
  <2> QED
    BY <1>10, <2>1, <2>3, PlainInv DEF MENU_FIRMWARE_UPDATE_ERROR1
<1>11. CASE MENU_FIRMWARE_UPDATE_ERROR2(u, c)
  BY <1>11, <1>0, PlainInv, TurnEnter, TurnStay
  DEF MENU_FIRMWARE_UPDATE_ERROR2, Otherwise
<1>12. CASE MENU_ERROR(u, c)
  BY <1>12, <1>0, PlainInv, TurnGoTo, TurnStay
  DEF MENU_ERROR, Otherwise
<1>13. CASE MENU_INFO(u, c)
  BY <1>13, <1>0, PlainInv, TurnGoTo, TurnStay
  DEF MENU_INFO, Otherwise
<1> QED
  BY <1>1, <1>2, <1>3, <1>4, <1>5, <1>6, <1>7, <1>8, <1>9, <1>10, <1>11,
     <1>12, <1>13

-----------------------------------------------------------------------------
(* HandleUI() and what else there is.                                      *)

LEMMA MovedInv ==
  ASSUME MenuInv(ui), NEW c, Patient(c)
  PROVE  MenuInv(Moved(c))
<1>1. CASE Moved(c) = ui
  BY <1>1
<1>2. CASE Moved(c) # ui
  <2>1. ui.mask # {} /\ ui.state # "NONE1"
    BY <1>2 DEF Moved, Patient
  <2>2. PICK r \in ui.mask : Moved(c) = [ui EXCEPT !.sub = r, !.state = ui.parent]
    <3> DEFINE below == {r \in ui.mask : r > ui.sub}
               above == {r \in ui.mask : r < ui.sub}
    <3>1. ui.mask \subseteq Rows /\ below \subseteq ui.mask /\ above \subseteq ui.mask
      BY DEF MenuInv, CursorInv
    <3>2. below # {} => Min(below) \in ui.mask
      BY <3>1, RowsIn
    <3>3. above # {} => Max(above) \in ui.mask
      BY <3>1, RowsIn
    <3>4. Max(ui.mask) \in ui.mask
      BY <2>1, <3>1, RowsIn
    <3>5. CASE c = "down" /\ below # {}
      BY <3>2, <3>5 DEF Moved
    <3>6. CASE c = "up" /\ ui.sub > 0
      BY <2>1, <3>3, <3>4, <3>6 DEF Moved
    <3> QED
      BY <1>2, <3>5, <3>6 DEF Moved
  <2> DEFINE u == Moved(c)
  <2>3. /\ u.state = ui.parent /\ u.parent = ui.parent /\ u.mask = ui.mask
        /\ u.sub = r /\ DOMAIN u = Fields
    BY <2>2 DEF MenuInv, CursorInv, Fields
  <2> HIDE DEF u
  <2>4. CursorInv(u)
    <3>1. /\ ui.mask \subseteq Rows /\ ui.parent \notin NoParents
          /\ ui.parent = "8BIT_MAIN1" => \A s \in ui.mask : s <= LastRow
      BY DEF MenuInv, CursorInv
    <3>2. RowFits(u.state, u.sub) /\ u.state \notin Selecting
      BY <2>3, <3>1 DEF RowFits, NoParents
    <3> QED
      BY <2>3, <3>1, <3>2 DEF CursorInv
  <2>5. HardInv(u)
    <3>1. ui.parent \notin Selecting
      BY DEF MenuInv, CursorInv, NoParents
    <3>2. Inside(u) <=> ui.parent \in HardfilePages
      BY <2>3, <3>1 DEF Inside
    <3> QED
      BY <2>1, <2>3, <3>2 DEF MenuInv, HardInv
  <2> QED
    BY <2>4, <2>5 DEF MenuInv, u
<1> QED
  BY <1>1, <1>2

LEMMA HandleInv ==
  ASSUME MenuInv(ui), NEW c, Patient(c), HandleUI(c)
  PROVE  MenuInv(ui)'
<1> DEFINE u == Moved(c)
<1>1. MenuInv(u)
  BY MovedInv
<1> HIDE DEF u
<1>2. CASE Machine(u, c)
  BY <1>1, <1>2, MinimigMainInv, SlotsInv, SettingsInv, HardfilesInv, CoresInv,
     MistInv DEF Machine
<1>3. CASE Shared(u, c)
  BY <1>1, <1>3, NoneInv, OpenInv, FirmwareInv DEF Shared
<1> QED
  BY <1>2, <1>3 DEF HandleUI, u

LEMMA MessageInv ==
  ASSUME MenuInv(ui), Message
  PROVE  MenuInv(ui)'
<1>1. PICK kind \in {"ERROR", "INFO"} :
          GoTo(ui, kind) /\ osd' \in {osd, "message"}
  BY DEF Message
<1>2. /\ lost' = (lost \/ InHardfiles) /\ Effect /\ UNCHANGED <<fs, world>>
  BY DEF Message
<1>3. /\ ui'.state = kind /\ ui'.mask = ui.mask /\ ui'.sub = ui.sub
      /\ ui'.parent = ui.parent /\ DOMAIN ui' = Fields
  BY <1>1 DEF MenuInv, CursorInv, Fields, GoTo
<1>4. WorldTypeOK'
  <2>1. effects' \in 0 .. MaxEffects /\ UNCHANGED <<core, mmc>>
    BY <1>2, EffectType DEF MenuInv
  <2>2. lost' \in BOOLEAN
    BY <1>2 DEF InHardfiles, MenuInv, WorldTypeOK
  <2> QED
    BY <1>1, <1>2, <2>1, <2>2 DEF MenuInv, WorldTypeOK, world
<1>5. CursorInv(ui)'
  BY <1>3 DEF MenuInv, CursorInv, RowFits, Selecting
<1>6. HardInv(ui)'
  <2>1. ~Inside(ui)' /\ SelectorInv'
    BY <1>2, <1>3 DEF Inside, Selecting, HardfilePages, MenuInv, HardInv, SelectorInv
  <2>2. AsOpened(config.hardfile)' <=> AsOpened(config.hardfile)
    BY <1>2 DEF AsOpened, world
  <2>3. ASSUME ~lost' PROVE ~lost /\ ~InHardfiles
    BY <1>2, <2>3 DEF MenuInv, WorldTypeOK
  <2>4. ASSUME ~InHardfiles
        PROVE  /\ ~Inside(ui)
               /\ ui.parent \in HardfilePages => ui.mask = {}
    BY <2>4 DEF InHardfiles, Inside, Selecting, MenuInv, HardInv, SelectorInv
  <2> QED
    BY <1>3, <2>1, <2>2, <2>3, <2>4 DEF MenuInv, HardInv
<1>7. OneList => ListInv'
  BY <1>2 DEF MenuInv, ListInv, Wanted
<1> QED
  BY <1>4, <1>5, <1>6, <1>7 DEF MenuInv

LEMMA EjectAllInv ==
  ASSUME MenuInv(ui), EjectAllFloppies
  PROVE  MenuInv(ui)'
<1> DEFINE H == [i \in Units |-> [config.hardfile[i] EXCEPT !.present = FALSE]]
<1>1. /\ disks' = [disks EXCEPT !.amiga = @ \ {d \in @ : d < drives}]
      /\ config' = [config EXCEPT !.hardfile = H] /\ Effect
      /\ UNCHANGED <<ui, osd, fs, t_hardfile, saved, hdf, drives, st, lost>>
  BY DEF EjectAllFloppies
<1>2. \A i \in Units : /\ H[i] \in Hardfile
                       /\ OpenedAs(H[i]) = OpenedAs(config.hardfile[i])
  <2>1. \A i \in Units : config.hardfile[i] \in Hardfile
    BY DEF MenuInv, WorldTypeOK, Config
  <2> QED
    BY <2>1 DEF Hardfile, OpenedAs
<1>3. config' \in Config /\ config'.hardfile = H
  <2>1. H \in [Units -> Hardfile]
    BY <1>2
  <2> HIDE DEF H
  <2> QED
    BY <1>1, <2>1 DEF MenuInv, WorldTypeOK, Config
<1> HIDE DEF H
<1>4. WorldTypeOK'
  <2>1. effects' \in 0 .. MaxEffects /\ UNCHANGED <<core, mmc>>
    BY <1>1, EffectType DEF MenuInv
  <2>2. /\ DOMAIN disks' = {"amiga", "st", "archie"}
        /\ disks'.amiga \subseteq 0 .. 3 /\ disks'.st \subseteq 0 .. 3
        /\ disks'.archie \subseteq {0, 1}
    BY <1>1 DEF MenuInv, WorldTypeOK
  <2> QED
    BY <1>1, <1>3, <2>1, <2>2 DEF MenuInv, WorldTypeOK
<1>5. CursorInv(ui)'
  BY <1>1 DEF MenuInv, CursorInv, RowFits, DiskOf
<1>6. HardInv(ui)'
  <2>1. /\ Inside(ui)' <=> Inside(ui)
        /\ SelectorInv' <=> SelectorInv
    BY <1>1 DEF Inside, SelectorInv
  <2>2. AsOpened(config.hardfile)' <=> AsOpened(config.hardfile)
    BY <1>1, <1>2, <1>3 DEF AsOpened
  <2>3. AsOpened(t_hardfile)' <=> AsOpened(t_hardfile)
    BY <1>1 DEF AsOpened
  <2> QED
    BY <1>1, <2>1, <2>2, <2>3 DEF MenuInv, HardInv
<1>7. OneList => ListInv'
  BY <1>1 DEF MenuInv, ListInv, Wanted
<1> QED
  BY <1>4, <1>5, <1>6, <1>7 DEF MenuInv

LEMMA SameInv ==
  ASSUME MenuInv(ui), UNCHANGED vars
  PROVE  MenuInv(ui)'
<1> USE DEF vars, world
<1>1. WorldTypeOK'
  BY DEF MenuInv, WorldTypeOK
<1>2. CursorInv(ui)'
  BY DEF MenuInv, CursorInv, RowFits, DiskOf
<1>3. /\ Inside(ui)' <=> Inside(ui)
      /\ SelectorInv' <=> SelectorInv
      /\ AsOpened(config.hardfile)' <=> AsOpened(config.hardfile)
      /\ AsOpened(t_hardfile)' <=> AsOpened(t_hardfile)
  BY DEF Inside, SelectorInv, AsOpened
<1>4. HardInv(ui)'
  BY <1>3 DEF MenuInv, HardInv
<1>5. OneList => ListInv'
  BY DEF MenuInv, ListInv, Wanted
<1> QED
  BY <1>1, <1>2, <1>4, <1>5 DEF MenuInv

LEMMA MenuNext == MenuInv(ui) /\ [Next]_vars => MenuInv(ui)'
  BY HandleInv, MessageInv, EjectAllInv, SameInv DEF Next, Others

LEMMA MenuInit == Init => MenuInv(ui)
<1> SUFFICES ASSUME Init PROVE MenuInv(ui)
  OBVIOUS
<1>1. /\ ui = [state |-> "NONE1", parent |-> "NONE1", sub |-> 0, mask |-> {}]
      /\ osd = "off" /\ core \in Cores /\ mmc \in BOOLEAN
      /\ fs = [ptr |-> "", buffer |-> "", list |-> "", select |-> "NONE1",
               cancel |-> "NONE1"]
      /\ t_hardfile = config.hardfile
      /\ hdf = [i \in Units |-> OpenedAs(config.hardfile[i])]
      /\ drives = 1
      /\ disks = [amiga |-> {}, st |-> {}, archie |-> {}]
      /\ st = [direct |-> FALSE, cart |-> FALSE]
      /\ effects = 0 /\ lost = FALSE
  BY DEF Init
<1>2. config \in Config /\ config.hardfile \in [Units -> Hardfile]
  <2>1. /\ Defaults \in Config /\ DOMAIN Defaults = {"drives", "ide", "hardfile"}
        /\ Defaults.drives = 1 /\ Defaults.hardfile \in [Units -> Hardfile]
    BY DefaultsType DEF Defaults, Config
  <2> DEFINE H == [i \in Units |-> Opened(Defaults.hardfile[i])]
  <2>2. H \in [Units -> Hardfile]
    BY <2>1, OpenedType
  <2>3. /\ DOMAIN config = {"drives", "ide", "hardfile"}
        /\ config = [[Defaults EXCEPT !.ide = TRUE] EXCEPT !.hardfile = H]
    BY <2>1 DEF Init
  <2> HIDE DEF H
  <2>4. [Defaults EXCEPT !.ide = TRUE] \in Config
    BY <2>1 DEF Config
  <2> QED
    BY <2>2, <2>3, <2>4 DEF Config
<1>3. DOMAIN hdf = Units /\ \A i \in Units : hdf[i] \in Kinds \X (Names \cup {"HARDFILE"})
  <2>1. \A i \in Units : OpenedAs(config.hardfile[i]) \in Kinds \X (Names \cup {"HARDFILE"})
    BY <1>2 DEF OpenedAs, Hardfile
  <2> QED
    BY <1>1, <2>1
<1>4. WorldTypeOK
  <2>1. effects \in 0 .. MaxEffects
    <3>1. MaxEffects \in Nat
      BY MenuAssumption
    <3>2. effects = 0
      BY <1>1
    <3> QED
      BY <3>1, <3>2
  <2>2. saved \in [Slots -> Config \cup {NoConfig}]
    BY SavedAssumption DEF Init
  <2>3. /\ DOMAIN fs = {"ptr", "buffer", "list", "select", "cancel"}
        /\ fs.ptr \in Exts \cup {"", "ext"} /\ fs.buffer \in Exts \cup {""}
        /\ fs.list \in Exts \cup {""}
    BY <1>1
  <2>4. /\ DOMAIN disks = {"amiga", "st", "archie"}
        /\ disks.amiga \subseteq 0 .. 3 /\ disks.st \subseteq 0 .. 3
        /\ disks.archie \subseteq {0, 1}
        /\ st \in [direct : BOOLEAN, cart : BOOLEAN]
    BY <1>1
  <2>5. /\ core \in Cores /\ mmc \in BOOLEAN /\ osd \in {"off", "menu", "message"}
        /\ lost \in BOOLEAN /\ t_hardfile \in [Units -> Hardfile]
    BY <1>1, <1>2
  <2>6. drives \in 0 .. 3
    <3>1. drives = 1
      BY <1>1
    <3> QED
      BY <3>1
  <2> QED
    BY <1>2, <1>3, <2>1, <2>2, <2>3, <2>4, <2>5, <2>6, Zenon DEF WorldTypeOK
<1>5. /\ DOMAIN ui = {"state", "parent", "sub", "mask"} /\ ui.state = "NONE1"
      /\ ui.parent = "NONE1" /\ ui.sub = 0 /\ ui.mask = {}
      /\ fs.ptr = "" /\ fs.buffer = "" /\ fs.list = ""
      /\ fs.select = "NONE1" /\ fs.cancel = "NONE1"
  BY <1>1
<1>6. CursorInv(ui)
  <2>1. 0 \in Rows
    BY DEF Rows
  <2>2. "NONE1" \notin NoParents /\ "NONE1" \notin Selecting
    BY DEF NoParents, Selecting
  <2>3. RowFits("NONE1", 0)
    BY DEF RowFits
  <2> QED
    BY <1>5, <2>1, <2>2, <2>3 DEF CursorInv, Fields
<1>7. HardInv(ui)
  <2>1. AsOpened(config.hardfile)
    BY <1>1 DEF AsOpened
  <2>2. ~Inside(ui) /\ SelectorInv /\ ui.parent \notin HardfilePages
    BY <1>5 DEF SelectorInv, Inside, Selecting, HardfilePages
  <2> QED
    BY <2>1, <2>2 DEF HardInv
<1>8. ListInv
  BY <1>5 DEF ListInv, Wanted, Points
<1> QED
  BY <1>4, <1>6, <1>7, <1>8 DEF MenuInv

(* The cursor never leaves the display, floppies are only in drives that   *)
(* there are, and the configuration, whether it is loaded, saved or edited *)
(* on its pages, is one that the variables can hold (menu.c).              *)
THEOREM TypeCorrect == Spec => []TypeOK
<1>1. MenuInv(ui) => TypeOK
  BY DEF MenuInv, WorldTypeOK, CursorInv, Rows, TypeOK
<1>2. QED
  BY <1>1, MenuInit, MenuNext, PTL DEF Spec

(* However the page of the hard disks is left, by the exit, by a key that  *)
(* comes back to it or by way of the file selector, the configuration is   *)
(* that of the disks that are open once the menu is closed, unless a       *)
(* message took the page away (menu.c:2236-2280).                          *)
THEOREM HardfilesCorrect == Spec => []HardfilesAsOpened
<1>1. MenuInv(ui) => HardfilesAsOpened
  BY DEF MenuInv, HardInv, HardfilesAsOpened, Inside, HardfilePages, Selecting, AsOpened
<1>2. QED
  BY <1>1, MenuInit, MenuNext, PTL DEF Spec

(* As long as all strings of a core's menu name the same files, the file   *)
(* selector lists what was asked for, whichever pages used it before and   *)
(* whatever the buffer of the extension holds by now (menu.c:149-188).     *)
THEOREM ListCorrect == OneList /\ Spec => []ListAsAsked
<1>1. OneList /\ MenuInv(ui) => ListAsAsked
  BY DEF MenuInv, ListInv, ListAsAsked
<1> DEFINE I == OneList /\ MenuInv(ui)
<1>2. OneList /\ Init => I
  BY MenuInit
<1>3. I /\ [Next]_vars => I'
  BY MenuNext
<1>4. I => ListAsAsked
  BY <1>1
<1> HIDE DEF I
<1>5. QED
  BY <1>2, <1>3, <1>4, PTL DEF Spec
=============================================================================
