---------------------------- MODULE FileBrowser ----------------------------
(***************************************************************************)
(* The Files app (app/filebrowser/FileBrowser.cpp, View.cpp, State.cpp).   *)
(* The LVGL thread handles presses; "Rename" and "Delete" only start a     *)
(* dialog, an app of its own.  The loader's thread hands its result to the *)
(* Files app later, which then acts on what is selected by that time.  The *)
(* GUI thread draws the top of the app stack, before or after the result.  *)
(* State is shared by the two threads: setEntriesForPath() holds its mutex *)
(* but reads and the writes of setSelectedChildEntry() do not, so a        *)
(* handler of either thread is one step for each of its writes.            *)
(* Two directories, "top" and its child "sub".                             *)
(***************************************************************************)
EXTENDS Naturals, Sequences, FiniteSets, SequencesExt

CONSTANTS
    Names,      \* all names, in the order of direntSortAlphaAndType()
    Files,      \* [{"top", "sub"} -> SUBSET names]: what is there at first
    SubDir,     \* the name of the directory "sub" in "top"
    NoName,     \* the empty name
    MaxDialogs  \* bound on the dialogs and viewers started

FileBrowserParameters == MaxDialogs \in Nat

VARIABLES
    fs,        \* fs[path]: the names in a directory
    fbPath,    \* State::current_path
    entries,   \* State::dir_entries
    selected,  \* State::selected_child_entry
    action,    \* State::action
    fbList,    \* the names on the buttons of dir_entry_list
    menu,      \* action_list: "none", "directory" or "file"
    fbView,    \* the widgets are "shown" or "gone"
    press,     \* the handler on the LVGL thread: [pc, to]
    asked,     \* the apps to start: [kind, path, name]
    dialogs,   \* those that run, the last one on top
    topDrawn,  \* the top of the stack is on the screen
    resultPc,  \* onResult()
    answer,    \* the result: [kind, path, name, new]
    filepath,  \* what onResult() read: [path, name], and whether State was half written
    relist,    \* the path that it lists at its end
    overlap,   \* history: the last dialog was asked for before another was dealt with
    starts     \* how many were asked for

stateVars == <<fbPath, entries, selected, action>>
viewVars == <<fbList, menu, fbView>>
loaderVars == <<asked, dialogs, topDrawn>>
resultVars == <<resultPc, answer, filepath, relist>>
history == <<overlap, starts>>
vars == <<fs, stateVars, viewVars, press, loaderVars, resultVars, history>>

Paths == {"top", "sub"}
NoAnswer == [kind |-> "none", path |-> "top", name |-> NoName, new |-> NoName]
NoFile == [path |-> "top", name |-> NoName, half |-> FALSE]
Idle == [pc |-> "idle", to |-> "none"]

(* scandir() *)
Listing(tree, path) ==
    LET kept[n \in 0 .. Len(Names)] ==
            IF n = 0 THEN <<>>
            ELSE IF Names[n] \in tree[path] THEN Append(kept[n - 1], Names[n])
            ELSE kept[n - 1]
    IN  kept[Len(Names)]

Exists(path) == path = "top" \/ (path = "sub" /\ SubDir \in fs["top"])
ChildPath(path) == IF path = "top" THEN "sub" ELSE "missing"

Init == /\ fs = Files
        /\ fbPath = "top" /\ entries = Listing(fs, "top")
        /\ selected = NoName /\ action = "none"
        /\ fbList = entries /\ menu = "none" /\ fbView = "shown"
        /\ press = Idle
        /\ asked = <<>> /\ dialogs = <<>> /\ topDrawn = TRUE
        /\ resultPc = "idle" /\ answer = NoAnswer
        /\ filepath = NoFile /\ relist = "top"
        /\ overlap = FALSE /\ starts = 0

-----------------------------------------------------------------------------
(* State *)

(* Who holds the mutex, in setEntriesForPath(). *)
LvglLists == press.pc = "unselect" \/ press = [pc |-> "clear", to |-> "update"]
LoaderLists == resultPc \in {"unselect", "clear"}

(* What a handler does after the action is cleared. *)
Goes(to) == press' = IF to = "enter" THEN [pc |-> "list", to |-> ChildPath(fbPath)]
                                     ELSE [pc |-> to, to |-> "none"]

(* Mutation of SetSelectedChildEntry: the pending action is kept. *)
SelectOnly(name, to) == selected' = name /\ Goes(to)

(* setSelectedChildEntry(): the action is cleared in the next step, and then the
   handler goes on with `to`. *)
SetSelectedChildEntry(name, to) ==
    /\ selected' = name
    /\ press' = [pc |-> "clear", to |-> to]

(* The beginning of setEntriesForPath(): scandir() clears the list, and if it
   fails nothing else is touched.  The selection and the action come next. *)
ListEntries(path, found) ==
    /\ found => Exists(path)
    /\ entries' = IF found THEN Listing(fs, path) ELSE <<>>
    /\ fbPath' = IF found THEN path ELSE fbPath

(* startApp(), of a dialog or a viewer *)
Ask(kind, name) == /\ starts < MaxDialogs /\ starts' = starts + 1
                   /\ asked' = Append(asked, [kind |-> kind, path |-> fbPath, name |-> name])
                   /\ UNCHANGED <<dialogs, topDrawn>>

(* A dialog, or its answer, is under way. *)
Busy == asked # <<>> \/ dialogs # <<>> \/ resultPc # "idle"

-----------------------------------------------------------------------------
(* View, on the LVGL thread *)
Touch == fbView = "shown" /\ resultPc # "dead" /\ press = Idle

(* getDirent(), which gives up if the mutex is held: then the press does nothing. *)
Entry(i) == Touch /\ ~LoaderLists /\ i <= Len(entries)

PressDirectory(i) == /\ Entry(i) /\ entries[i] = SubDir
                     /\ SetSelectedChildEntry(entries[i], "enter")
PressFile(i) == /\ Entry(i) /\ entries[i] # SubDir
                /\ SetSelectedChildEntry(entries[i], "view")
LongPress(i) == /\ Entry(i)
                /\ SetSelectedChildEntry(entries[i], IF entries[i] = SubDir THEN "directory" ELSE "file")

PressEntry(i) == /\ PressDirectory(i) \/ PressFile(i) \/ LongPress(i)
                 /\ UNCHANGED <<fs, fbPath, entries, action, viewVars, loaderVars, resultVars, history>>

NavigateUp == /\ Touch
              /\ fbPath # "top"
              /\ press' = [pc |-> "list", to |-> "top"]
              /\ UNCHANGED <<fs, stateVars, viewVars, loaderVars, resultVars, history>>

(* action = ActionNone *)
ClearAction == /\ press.pc = "clear"
               /\ action' = "none"
               /\ Goes(press.to)
               /\ UNCHANGED <<fs, fbPath, entries, selected, viewVars, loaderVars, resultVars, history>>

(* setEntriesForPath() of a press; without the mutex it gives up. *)
ListOfPress(found) ==
    /\ press.pc = "list"
    /\ IF LoaderLists THEN ~found /\ UNCHANGED <<entries, fbPath>>
                      ELSE ListEntries(press.to, found)
    /\ press' = [pc |-> IF found THEN "unselect" ELSE "update", to |-> "none"]
    /\ UNCHANGED <<fs, selected, action, viewVars, loaderVars, resultVars, history>>

Unselect == /\ press.pc = "unselect"
            /\ SetSelectedChildEntry(NoName, "update")
            /\ UNCHANGED <<fs, fbPath, entries, action, viewVars, loaderVars, resultVars, history>>

(* onNavigate() and update() on the LVGL thread, which has the lock already. *)
UpdateOfPress == /\ press.pc = "update" /\ ~LoaderLists
                 /\ press' = Idle
                 /\ menu' = "none" /\ fbList' = entries
                 /\ UNCHANGED <<fs, stateVars, fbView, loaderVars, resultVars, history>>

(* viewFile(): a viewer is started, or nothing is. *)
ViewFile == /\ press.pc = "view"
            /\ press' = Idle
            /\ menu' = "none"
            /\ \/ Ask("view", selected) /\ overlap' = Busy
               \/ UNCHANGED <<loaderVars, history>>
            /\ UNCHANGED <<fs, stateVars, fbList, fbView, resultVars>>

ShowActions == /\ press.pc \in {"directory", "file"}
               /\ press' = Idle
               /\ menu' = press.pc
               /\ UNCHANGED <<fs, stateVars, fbList, fbView, loaderVars, resultVars, history>>

(* onRenamePressed(), onDeletePressed(): the name for the dialog is read first. *)
PressAction(kind) ==
    /\ Touch
    /\ menu = "file" \/ (menu = "directory" /\ kind = "rename")
    /\ starts < MaxDialogs
    /\ press' = [pc |-> kind, to |-> selected]
    /\ overlap' = Busy
    /\ UNCHANGED <<fs, stateVars, viewVars, loaderVars, resultVars, starts>>

SetPendingAction == /\ press.pc \in {"rename", "delete"}
                    /\ press' = Idle
                    /\ action' = press.pc
                    /\ Ask(press.pc, press.to)
                    /\ UNCHANGED <<fs, fbPath, entries, selected, viewVars, resultVars, overlap>>

ScrollBegin == /\ Touch
               /\ menu # "none"
               /\ menu' = "none"
               /\ UNCHANGED <<fs, stateVars, fbList, fbView, press, loaderVars, resultVars, history>>

-----------------------------------------------------------------------------
(* The loader and the GUI thread *)

Start == /\ asked # <<>> /\ resultPc = "idle"
         /\ dialogs' = Append(dialogs, Head(asked))
         /\ asked' = Tail(asked)
         /\ topDrawn' = FALSE
         /\ UNCHANGED <<fs, stateVars, viewVars, press, resultVars, history>>

(* redraw(), with the LVGL lock, deletes the widgets on the screen; the new ones
   are those of View::init() if Files is on top again. *)
Redraw == /\ ~topDrawn /\ resultPc # "dead" /\ press = Idle /\ ~LoaderLists
          /\ topDrawn' = TRUE
          /\ menu' = "none"
          /\ fbView' = IF dialogs = <<>> THEN "shown" ELSE "gone"
          /\ fbList' = IF dialogs = <<>> THEN entries ELSE <<>>
          /\ UNCHANGED <<fs, stateVars, press, asked, dialogs, resultVars, history>>

(* The user answers the dialog on the screen, and the loader stops it.  The
   app below gets the result; a dialog ignores it.  The new name of the
   directory is left out.                                                   *)
Answer(new) ==
    /\ dialogs # <<>> /\ topDrawn /\ resultPc = "idle"
    /\ dialogs' = Front(dialogs)
    /\ topDrawn' = FALSE
    /\ LET d == Last(dialogs)
           ok == Len(dialogs) = 1 /\ d.kind # "view"
       IN  /\ new # NoName => d.kind = "rename" /\ d.name # SubDir
           /\ answer' = IF ok THEN [kind |-> d.kind, path |-> d.path, name |-> d.name, new |-> new]
                              ELSE NoAnswer
           /\ resultPc' = IF ok THEN "read" ELSE "idle"
    /\ UNCHANGED <<fs, stateVars, viewVars, press, asked, filepath, relist, history>>

(* No, Cancel or the back button: onResult() returns early or does nothing. *)
Dismiss == /\ dialogs # <<>> /\ topDrawn /\ resultPc = "idle"
           /\ dialogs' = Front(dialogs)
           /\ topDrawn' = FALSE
           /\ UNCHANGED <<fs, stateVars, viewVars, press, asked, resultVars, history>>

-----------------------------------------------------------------------------
(* onResult(), on the loader's thread, without a lock but those of State and LVGL. *)
Turn(from, to) == resultPc = from /\ resultPc' = to /\ UNCHANGED <<viewVars, press, loaderVars, history>>
Ends == /\ answer' = NoAnswer /\ filepath' = NoFile /\ relist' = "top"
        /\ UNCHANGED <<fs, stateVars>>

(* A press has changed the path or the selection, and not yet cleared the action. *)
HalfWritten == press.pc \in {"unselect", "clear"}

(* getSelectedChildPath() *)
ReadSelected == /\ Turn("read", "decide")
                /\ filepath' = [path |-> fbPath, name |-> selected, half |-> HalfWritten]
                /\ UNCHANGED <<fs, stateVars, answer, relist>>

(* getPendingAction().  getResultIndex() is -1 and getResult() empty for the
   bundle of the other dialog. *)
Wanted == \/ action = "delete" /\ answer.kind = "delete"
          \/ action = "rename" /\ answer.kind = "rename" /\ answer.new \notin {NoName, selected}

Decide == \/ Wanted /\ Turn("decide", "operate") /\ UNCHANGED <<fs, stateVars, answer, filepath, relist>>
          \/ ~Wanted /\ Turn("decide", "idle") /\ Ends

(* remove(), which fails for what is not there and for a directory with something in it. *)
Delete == /\ answer.kind = "delete"
          /\ fs' = IF filepath.name = SubDir /\ fs["sub"] # {} THEN fs
                   ELSE [fs EXCEPT ![filepath.path] = @ \ {filepath.name}]

(* rename(), to a path made of the one that is current now. *)
Rename == /\ answer.kind = "rename"
          /\ fs' = IF filepath.name \in fs[filepath.path] \ {SubDir} /\ Exists(fbPath)
                   THEN [p \in Paths |->
                           (fs[p] \ (IF p = filepath.path THEN {filepath.name} ELSE {}))
                               \cup (IF p = fbPath THEN {answer.new} ELSE {})]
                   ELSE fs

Operate == /\ Turn("operate", "where")
           /\ Delete \/ Rename
           /\ UNCHANGED <<stateVars, answer, filepath, relist>>

(* getCurrentPath() *)
ReadPath == /\ Turn("where", "list")
            /\ relist' = fbPath
            /\ UNCHANGED <<fs, stateVars, answer, filepath>>

ListOfResult(found) ==
    /\ Turn("list", IF found THEN "unselect" ELSE "update")
    /\ IF LvglLists THEN ~found /\ UNCHANGED <<entries, fbPath>>
                    ELSE ListEntries(relist, found)
    /\ UNCHANGED <<fs, selected, action, answer, filepath, relist>>

UnselectOfResult == /\ Turn("unselect", "clear")
                    /\ selected' = NoName
                    /\ UNCHANGED <<fs, fbPath, entries, action, answer, filepath, relist>>

ClearOfResult == /\ Turn("clear", "update")
                 /\ action' = "none"
                 /\ UNCHANGED <<fs, fbPath, entries, selected, answer, filepath, relist>>

(* update() with the LVGL lock: before the redraw, the widgets that it cleans are gone. *)
UpdateResult == /\ resultPc = "update" /\ press = Idle
                /\ IF fbView = "shown"
                   THEN resultPc' = "idle" /\ fbList' = entries
                   ELSE resultPc' = "dead" /\ UNCHANGED fbList
                /\ Ends
                /\ UNCHANGED <<menu, fbView, press, loaderVars, history>>

(* The LVGL lock is not to be had. *)
UpdateGivesUp == Turn("update", "idle") /\ Ends

OnResult == \/ ReadSelected \/ Decide \/ Operate \/ ReadPath
            \/ \E found \in BOOLEAN : ListOfResult(found)
            \/ UnselectOfResult \/ ClearOfResult \/ UpdateResult \/ UpdateGivesUp

Handler == \/ \E i \in 1..Len(fbList) : PressEntry(i)
           \/ NavigateUp \/ ClearAction \/ Unselect \/ UpdateOfPress \/ ViewFile \/ ShowActions
           \/ \E found \in BOOLEAN : ListOfPress(found)
           \/ \E kind \in {"rename", "delete"} : PressAction(kind)
           \/ SetPendingAction \/ ScrollBegin

Next == \/ Handler \/ OnResult
        \/ Start \/ Redraw \/ Dismiss
        \/ \E new \in (ToSet(Names) \ {SubDir}) \cup {NoName} : Answer(new)

Spec == Init /\ [][Next]_vars

-----------------------------------------------------------------------------
FileBrowserTypeOK ==
    /\ fs \in [Paths -> SUBSET ToSet(Names)]
    /\ fbPath \in Paths /\ relist \in Paths
    /\ ToSet(entries) \cup ToSet(fbList) \subseteq ToSet(Names)
    /\ selected \in ToSet(Names) \cup {NoName}
    /\ action \in {"none", "rename", "delete"}
    /\ menu \in {"none", "directory", "file"}
    /\ fbView \in {"shown", "gone"}
    /\ \A d \in ToSet(asked) \cup ToSet(dialogs) :
           d.kind \in {"rename", "delete", "view"} /\ d.path \in Paths
    /\ {topDrawn, overlap} \subseteq BOOLEAN
    /\ starts \in 0..MaxDialogs
    /\ resultPc \in {"idle", "read", "decide", "operate", "where", "list", "unselect",
                     "clear", "update", "dead"}

(* What is deleted or renamed is what the dialog named, whatever is pressed
   before it is on the screen and while its answer is worked off, unless it
   was asked for while another was not dealt with, or the answer was read
   when a press had changed path or selection and not yet cleared the action
   (State.h:54-57 and setEntriesForPath() write them one by one).           *)
ActsOnWhatWasAsked ==
    resultPc \in {"operate", "where"} /\ ~overlap /\ ~filepath.half =>
        /\ filepath.name = answer.name
        /\ filepath.path = answer.path
=============================================================================
