------------------------------ MODULE FileApps ------------------------------
(***************************************************************************)
(* The two applications that use the file system: the file manager         *)
(* (filemanager.c) and the editor (editor.c), with the entry table they    *)
(* share.  Both keep entry indices for a long time (rows of the listing,   *)
(* the stack of visited directories, the attached file), and vtx2_create   *)
(* reuses the index of a deleted entry.                                    *)
(*                                                                         *)
(* All of this runs in the main loop, one event at a time, on a mounted    *)
(* disk, and a call of the file system is atomic here (Vtx2fs shows what is*)
(* inside).  A click is offered to every window under it, so one click on  *)
(* overlapping windows is an action of each, one after the other.          *)
(***************************************************************************)
EXTENDS Integers, Sequences, FiniteSets

CONSTANTS NumEntries,    \* sb.entry_table_capacity
          MaxRows,       \* FM_MAX_VISIBLE_ENTRIES
          VisibleRows,   \* FM_VISIBLE_ROWS
          MaxDepth,      \* FM_MAX_NAV_DEPTH
          MaxText,       \* EDITOR_MAX_CHARS - 1
          Chars,         \* the characters one types
          Words,         \* the file names one types
          MaxFolders,    \* bound on new_folder_counter
          MaxFiles       \* bound on new_file_counter

ASSUME SizesAssumption ==
  /\ NumEntries \in Nat \ {0} /\ MaxRows \in Nat /\ MaxDepth \in Nat
  /\ VisibleRows \in Nat \ {0}
  /\ MaxText \in Nat
  /\ MaxFolders \in Nat \ {0} /\ MaxFiles \in Nat \ {0}

VARIABLES store,      \* the entry table, with the files' contents
          fm,         \* the file manager: window, directory, stack, rows, scrolling
          menu,       \* its context menu
          ed,         \* the editor
          lost,       \* history: the attached file was deleted since it was opened
          failed      \* history: a file system call of the editor has failed

vars == <<store, fm, menu, ed, lost, failed>>

Ents == 0 .. NumEntries - 1
Root == 0
NoName == <<"", 0>>
Free == [type |-> "FREE", name |-> NoName, parent |-> Root, text |-> <<>>]
Live == {e \in Ents : store[e].type # "FREE"}

Folder(n) == <<"Klasor", n>>
File(n)   == <<"Dosya", n>>

(* One may also type a name of the kind the file manager gives.            *)
TypedNames == {<<w, 0>> : w \in Words} \cup {File(1)}

-----------------------------------------------------------------------------
(* The file system, as its callers see it.                                 *)

Children(s, d) == {e \in Ents \ {d} : s[e].type # "FREE" /\ s[e].parent = d}

(* The entry that vtx2_create_entry returns; none when it fails.           *)
NewEntry(d, n) ==
  {e \in Ents : /\ store[d].type = "DIR"
                /\ \A c \in Children(store, d) : store[c].name # n
                /\ store[e].type = "FREE"
                /\ \A x \in Ents : x < e => store[x].type # "FREE"}

Created(e, d, n, ty) ==
  [store EXCEPT ![e] = [type |-> ty, name |-> n, parent |-> d, text |-> <<>>]]

Deletable(e) ==
  /\ e # Root /\ store[e].type # "FREE"
  /\ store[e].type = "DIR" => Children(store, e) = {}

(* vtx2_write at offset 0: what lies beyond the new text stays.            *)
Overwritten(old, new) ==
  [i \in 1 .. (IF Len(old) < Len(new) THEN Len(new) ELSE Len(old)) |->
     IF i <= Len(new) THEN new[i] ELSE old[i]]
Truncated(t, n) == IF n < Len(t) THEN SubSeq(t, 1, n) ELSE t

-----------------------------------------------------------------------------
(* The file manager.                                                       *)

NoRow == 0
Row(s, e) == [index |-> e, name |-> s[e].name, type |-> s[e].type]

(* vtx2_list_dir and vtx2_stat: the first MaxRows children, by index.      *)
Listed(s, d) ==
  LET C      == Children(s, d)
      Nth(i) == CHOOSE e \in C : Cardinality({c \in C : c < e}) = i - 1
      n      == Cardinality(C)
  IN  [i \in 1 .. (IF n < MaxRows THEN n ELSE MaxRows) |-> Row(s, Nth(i))]

(* Mode and target are set whenever the menu opens; "chosen", the entry of *)
(* the row that was clicked, is history.                                   *)
ClosedMenu == [open |-> FALSE, mode |-> "EMPTY", target |-> NoRow, chosen |-> Root]

(* fm_refresh: lists directory d of the table s again, and forgets what    *)
(* referred to the old rows.  The listing is empty if it fails.            *)
RefreshedMenu_StaysOpen == menu        \* mutant: ctx_menu_open is not reset
RefreshedMenu == ClosedMenu
Relisted(rows) == [fm EXCEPT !.rows = rows, !.last = NoRow, !.scroll = 0]
Refresh(s, d, nav) ==
  /\ \E rows \in {Listed(s, d), <<>>} :
       fm' = [Relisted(rows) EXCEPT !.dir = d, !.nav = nav]
  /\ menu' = RefreshedMenu

(* filemanager_app_open.                                                   *)
FmOpen ==
  /\ IF fm.win = "minimized"
     THEN fm' = [fm EXCEPT !.win = "open"] /\ UNCHANGED menu
     ELSE \E rows \in {Listed(store, fm.dir), <<>>} :
            /\ fm' = [Relisted(rows) EXCEPT !.win = "open"]
            /\ menu' = RefreshedMenu
  /\ UNCHANGED <<store, ed, lost, failed>>

(* A left click on the window.  A minimized window still takes clicks, and *)
(* an open menu takes every click.                                         *)
FmClick == fm.win # "closed" /\ ~menu.open

FmClose ==
  /\ FmClick
  /\ fm' = [fm EXCEPT !.win = "closed"]
  /\ UNCHANGED <<store, menu, ed, lost, failed>>

FmMinimize ==
  /\ FmClick
  /\ fm' = [fm EXCEPT !.win = "minimized"]
  /\ UNCHANGED <<store, menu, ed, lost, failed>>

Back ==
  /\ FmClick
  /\ fm.nav # <<>>
  /\ Refresh(store, fm.nav[Len(fm.nav)], SubSeq(fm.nav, 1, Len(fm.nav) - 1))
  /\ UNCHANGED <<store, ed, lost, failed>>

(* fm_create_new_folder and fm_create_new_file, from a button or the menu; *)
(* a failure changes nothing but the menu.                                 *)
CreateNew(name, ty, counter, bound) ==
  /\ fm.win # "closed"
  /\ menu.open => menu.mode = "EMPTY"
  /\ fm[counter] < bound
  /\ \/ \E e \in NewEntry(fm.dir, name) :
          LET s == Created(e, fm.dir, name, ty) IN
            /\ store' = s
            /\ \E rows \in {Listed(s, fm.dir), <<>>} :
                 fm' = [Relisted(rows) EXCEPT ![counter] = @ + 1]
     \/ UNCHANGED <<store, fm>>
  /\ menu' = ClosedMenu
  /\ UNCHANGED <<ed, lost, failed>>

NewFolder == CreateNew(Folder(fm.folders), "DIR", "folders", MaxFolders)
NewFile   == CreateNew(File(fm.files), "FILE", "files", MaxFiles)

Pushed_Target(r) == Append(fm.nav, r.index)     \* mutant: the wrong directory
Pushed(r) == Append(fm.nav, fm.dir)

EnterDir(r) ==
  /\ r.type = "DIR" /\ Len(fm.nav) < MaxDepth
  /\ Refresh(store, r.index, Pushed(r))
  /\ UNCHANGED <<store, ed, lost, failed>>

(* editor_app_open_file.                                                   *)
OpenedOn(r, text) ==
  [ed EXCEPT !.win = "open", !.text = text, !.dirty = FALSE, !.hasFile = TRUE,
             !.file = r.index, !.name = r.name, !.awaiting = FALSE]

OpenInEditor(r) ==
  /\ r.type = "FILE"
  /\ \/ /\ store[r.index].type = "FILE"
        /\ ed' = OpenedOn(r, Truncated(store[r.index].text, MaxText))
        /\ failed' = FALSE
     \/ ed' = OpenedOn(r, <<>>) /\ failed' = TRUE          \* vtx2_read fails
  /\ lost' = FALSE
  /\ UNCHANGED store

(* filemanager_app_handle_scroll, which takes a minimized window too.      *)
Scrolled(delta) ==
  LET next == fm.scroll + delta
      most == IF Len(fm.rows) > VisibleRows THEN Len(fm.rows) - VisibleRows ELSE 0
  IN  CASE next < 0    -> 0
        [] next > most -> most
        [] OTHER       -> next

FmScroll(delta) ==
  /\ fm.win # "closed"
  /\ fm' = [fm EXCEPT !.scroll = Scrolled(delta)]
  /\ UNCHANGED <<store, menu, ed, lost, failed>>

(* The row at place v of the window.  A first click selects it, a second   *)
(* one soon enough opens it.                                               *)
At(v) == fm.scroll + v

SelectRow(i) ==
  /\ FmClick /\ i \in DOMAIN fm.rows
  /\ fm' = [fm EXCEPT !.last = i]
  /\ UNCHANGED <<store, menu, ed, lost, failed>>

DoubleClick(i) ==
  /\ FmClick /\ i \in DOMAIN fm.rows /\ fm.last = i
  /\ \/ EnterDir(fm.rows[i])
     \/ /\ OpenInEditor(fm.rows[i])
        /\ fm' = [fm EXCEPT !.last = NoRow]
        /\ UNCHANGED menu

RightClick(i) ==
  /\ fm.win = "open"
  /\ menu' = IF i \in DOMAIN fm.rows
             THEN [open |-> TRUE, mode |-> "ROW", target |-> i,
                   chosen |-> fm.rows[i].index]
             ELSE [ClosedMenu EXCEPT !.open = TRUE]
  /\ UNCHANGED <<store, fm, ed, lost, failed>>

Target == fm.rows[menu.target]
OnRow  == /\ fm.win # "closed" /\ menu.open
          /\ menu.mode = "ROW" /\ menu.target \in DOMAIN fm.rows

MenuOpenDir == OnRow /\ EnterDir(Target)

MenuOpenFile ==
  /\ OnRow
  /\ OpenInEditor(Target)
  /\ menu' = ClosedMenu
  /\ UNCHANGED fm

RowsAfterDelete_Stale(s) == fm.rows     \* mutant: no fm_refresh after vtx2_delete
RowsAfterDelete(s) == Listed(s, fm.dir)

(* "Sil": the rows are listed again whether vtx2_delete succeeds or not.   *)
MenuDelete ==
  /\ OnRow
  /\ \/ /\ Deletable(Target.index)
        /\ store' = [store EXCEPT ![Target.index] = Free]
        /\ lost' = (lost \/ (ed.hasFile /\ ed.file = Target.index))
     \/ UNCHANGED <<store, lost>>
  /\ \E rows \in {RowsAfterDelete(store'), <<>>} :
       fm' = Relisted(rows)
  /\ menu' = ClosedMenu
  /\ UNCHANGED <<ed, failed>>

MenuDismiss ==
  /\ fm.win # "closed" /\ menu.open
  /\ menu' = ClosedMenu
  /\ UNCHANGED <<store, fm, ed, lost, failed>>

-----------------------------------------------------------------------------
(* The editor.                                                             *)

(* editor_app_open_new, from the desktop or from the button "Yeni".        *)
EdNew ==
  /\ IF ed.win = "minimized"
     THEN ed' = [ed EXCEPT !.win = "open"] /\ UNCHANGED failed
     ELSE /\ ed' = [ed EXCEPT !.win = "open", !.text = <<>>, !.dirty = FALSE,
                              !.hasFile = FALSE, !.name = NoName, !.awaiting = FALSE]
          /\ failed' = FALSE
  /\ UNCHANGED <<store, fm, menu, lost>>

EdClose ==
  /\ ed.win # "closed"
  /\ ed' = [ed EXCEPT !.win = "closed"]
  /\ UNCHANGED <<store, fm, menu, lost, failed>>

EdMinimize ==
  /\ ed.win # "closed"
  /\ ed' = [ed EXCEPT !.win = "minimized"]
  /\ UNCHANGED <<store, fm, menu, lost, failed>>

(* editor_save_to_attached_file on file f of the table s: an error leaves  *)
(* some of the text written, and an error of vtx2_truncate goes unnoticed. *)
SavedText_NoTruncate(old) == Overwritten(old, ed.text)     \* mutant
SavedText(old) == Truncated(Overwritten(old, ed.text), Len(ed.text))

WithText(s, f, t) == IF s[f].type = "FILE" THEN [s EXCEPT ![f].text = t] ELSE s

Save(s, f, e) ==
  LET old == s[f].text
      Saved(t, d, bad) == /\ store' = WithText(s, f, t)
                          /\ ed' = [e EXCEPT !.dirty = d]
                          /\ failed' = bad
  IN  \/ s[f].type = "FILE" /\ Saved(SavedText(old), FALSE, FALSE)
      \/ /\ s[f].type = "FILE" \/ ed.text = <<>>      \* vtx2_truncate fails
         /\ Saved(Overwritten(old, ed.text), FALSE, TRUE)
      \/ /\ ed.text # <<>>                            \* vtx2_write fails
         /\ \E k \in 0 .. Len(ed.text) :
              Saved(Truncated(Overwritten(old, Truncated(ed.text, k)), Len(old)), e.dirty, TRUE)

SaveButton ==
  /\ ed.win # "closed"
  /\ IF ed.hasFile
     THEN Save(store, ed.file, ed)
     ELSE /\ ed' = [ed EXCEPT !.awaiting = TRUE]
          /\ UNCHANGED <<store, failed>>
  /\ UNCHANGED <<fm, menu, lost>>

Attached(e, n) ==
  [ed EXCEPT !.hasFile = TRUE, !.file = e, !.name = n, !.awaiting = FALSE]

(* Enter, after the name n has been typed: a new file in the root.         *)
EnterName(n) ==
  /\ ed.win # "closed" /\ ed.awaiting
  /\ \/ /\ \E e \in NewEntry(Root, n) :
             Save(Created(e, Root, n, "FILE"), e, Attached(e, n))
        /\ lost' = FALSE
     \/ /\ ed' = [ed EXCEPT !.awaiting = FALSE]
        /\ UNCHANGED <<store, lost, failed>>
  /\ UNCHANGED <<fm, menu>>

CancelName ==
  /\ ed.win # "closed" /\ ed.awaiting
  /\ ed' = [ed EXCEPT !.awaiting = FALSE]
  /\ UNCHANGED <<store, fm, menu, lost, failed>>

Edit(text) ==
  /\ ed.win # "closed" /\ ~ed.awaiting
  /\ ed' = [ed EXCEPT !.text = text, !.dirty = TRUE]
  /\ UNCHANGED <<store, fm, menu, lost, failed>>

Fits == Len(ed.text) < MaxText

Type(c)   == Fits /\ Edit(Append(ed.text, c))
Backspace == Len(ed.text) > 0 /\ Edit(Truncated(ed.text, Len(ed.text) - 1))

-----------------------------------------------------------------------------
(* A disk with nothing but the root, or with a file of an earlier session. *)
Init ==
  /\ \E old \in {Free, [Free EXCEPT !.type = "FILE", !.name = File(1)]} :
       store = [e \in Ents |-> CASE e = Root -> [Free EXCEPT !.type = "DIR"]
                                 [] e = 1    -> old
                                 [] OTHER    -> Free]
  /\ fm = [win |-> "closed", dir |-> Root, nav |-> <<>>, rows |-> <<>>,
           last |-> NoRow, scroll |-> 0, folders |-> 1, files |-> 1]
  /\ menu = ClosedMenu
  /\ ed = [win |-> "closed", text |-> <<>>, dirty |-> FALSE, hasFile |-> FALSE,
           file |-> Root, name |-> NoName, awaiting |-> FALSE]
  /\ lost = FALSE /\ failed = FALSE

Next ==
  \/ FmOpen \/ FmClose \/ FmMinimize \/ Back \/ NewFolder \/ NewFile
  \/ \E v \in 1 .. MaxRows : SelectRow(At(v)) \/ DoubleClick(At(v))
  \/ \E v \in 1 .. MaxRows + 1 : RightClick(At(v))
  \/ \E delta \in {-1, 2} : FmScroll(delta)
  \/ MenuOpenDir \/ MenuOpenFile \/ MenuDelete \/ MenuDismiss
  \/ EdNew \/ EdClose \/ EdMinimize \/ SaveButton \/ CancelName \/ Backspace
  \/ \E n \in TypedNames : EnterName(n)
  \/ \E c \in Chars : Type(c)

Spec == Init /\ [][Next]_vars

-----------------------------------------------------------------------------
Names == TypedNames \cup {NoName}
           \cup {Folder(n) : n \in 1 .. MaxFolders} \cup {File(n) : n \in 1 .. MaxFiles}
Texts == UNION {[1 .. n -> Chars] : n \in 0 .. MaxText}
Windows == {"closed", "open", "minimized"}
RowType == [index : Ents, name : Names, type : {"DIR", "FILE"}]

(* The types, checked as a part of RowsLive.                               *)
TypeOK ==
  /\ store \in [Ents -> [type : {"FREE", "FILE", "DIR"}, name : Names,
                        parent : Ents, text : Texts]]
  /\ fm.win \in Windows /\ fm.dir \in Ents
  /\ fm.nav \in Seq(Ents) /\ Len(fm.nav) <= MaxDepth
  /\ fm.rows \in Seq(RowType) /\ Len(fm.rows) <= MaxRows
  /\ fm.last \in 0 .. MaxRows /\ fm.scroll \in 0 .. MaxRows
  /\ fm.folders \in 1 .. MaxFolders /\ fm.files \in 1 .. MaxFiles
  /\ menu \in [open : BOOLEAN, mode : {"ROW", "EMPTY"}, target : 0 .. MaxRows,
               chosen : Ents]
  /\ ed \in [win : Windows, text : Texts, dirty : BOOLEAN, hasFile : BOOLEAN,
             file : Ents, name : Names, awaiting : BOOLEAN]
  /\ lost \in BOOLEAN /\ failed \in BOOLEAN

(* The rows on the screen are entries of the directory shown, with the     *)
(* name and type they were listed with, although the editor creates files  *)
(* behind the file manager's back and indices are reused; and the window   *)
(* is never scrolled past them, however they become fewer.                 *)
RowsLive ==
  /\ TypeOK
  /\ \A i \in DOMAIN fm.rows :
       LET r == fm.rows[i] IN
         /\ store[r.index].type = r.type /\ store[r.index].name = r.name
         /\ store[r.index].parent = fm.dir
  /\ fm.scroll > 0 => fm.scroll + VisibleRows <= Len(fm.rows)

(* The stack of visited directories is the path from the root to the       *)
(* directory shown, and every directory of it still exists: the button     *)
(* "Geri" never shows a deleted directory or the index of a file.          *)
NavIntact ==
  LET path == Append(fm.nav, fm.dir) IN
    /\ path[1] = Root
    /\ \A i \in DOMAIN path : store[path[i]].type = "DIR"
    /\ \A i \in 2 .. Len(path) : store[path[i]].parent = path[i - 1]

(* "Sil" deletes the entry whose row was clicked to open the menu, and no  *)
(* other, whatever happened to the listing while the menu was open.        *)
DeletesTheChosen ==
  [][\A e \in Ents : store[e].type # "FREE" /\ store'[e].type = "FREE"
       => menu.open /\ e = menu.chosen]_vars

(* The editor shows its file: the attached entry is the file it names,     *)
(* unless that was deleted since (the index is then free, and may become   *)
(* another file), and a text that is not marked as changed is the text of  *)
(* the file, as long as no call of the file system failed.                 *)
EditorShowsItsFile ==
  ed.hasFile /\ ~lost =>
    /\ store[ed.file].type = "FILE" /\ store[ed.file].name = ed.name
    /\ (~ed.dirty /\ ~failed) => store[ed.file].text = ed.text
=============================================================================
