----------------------------- MODULE TempClean ------------------------------
(***************************************************************************)
(* temp.clean (mcp_tools/temp_clean_tool.py): calls that delete the old    *)
(* items of one directory, while its users create, touch and remove items  *)
(* and may even put the directory elsewhere.  The tool looks at an item by *)
(* its name twice, and deletes by the name.  Deletions may fail, that of a *)
(* directory half way.                                                     *)
(***************************************************************************)
EXTENDS Integers, FiniteSets

CONSTANTS Cleaner,      \* the calls
          Item,         \* names of items
          Limit,        \* limits that calls are given
          MaxTouches    \* bound on what the users of the directory do

ASSUME LimitAssumption == Limit \subseteq Nat \ {0}
ASSUME TouchesAssumption == MaxTouches \in Nat

Place == {"inside", "outside"}   \* of SAFE_TEMP_DIRS
None == [kind |-> "none", old |-> FALSE]
\* old: not modified after the cutoff, which a call fixes when it starts
Content == {None} \cup [kind : {"file", "dir", "link"}, old : BOOLEAN]

VARIABLES leads,     \* where the path of the directory leads
          items,     \* what is there, by name
          touches,
          at,        \* where each call is
          dry, limit,
          todo,      \* iterdir: the names still to be scanned
          item,      \* the one it is at
          scanned,
          deleted,   \* deleted, in a dry run the candidates
          skipped,   \* name and reason
          removed,   \* the names this call removed, in whole or in part
          checked    \* history: the directory, and the item, are as last looked at

cleanVars == <<leads, items, touches, at, dry, limit, todo, item, scanned, deleted,
               skipped, removed, checked>>
files == <<leads, items, touches>>
asked == <<dry, limit>>

CleanInit ==
  /\ leads \in Place /\ items \in [Item -> Content] /\ touches = 0
  /\ at = [c \in Cleaner |-> "open"]
  /\ dry \in [Cleaner -> BOOLEAN] /\ limit \in [Cleaner -> Limit]
  /\ todo = [c \in Cleaner |-> {}] /\ item = [c \in Cleaner |-> CHOOSE n \in Item : TRUE]
  /\ scanned = [c \in Cleaner |-> 0]
  /\ deleted = [c \in Cleaner |-> {}] /\ skipped = [c \in Cleaner |-> {}]
  /\ removed = [c \in Cleaner |-> {}]
  /\ checked = [c \in Cleaner |-> [dir |-> FALSE, item |-> FALSE]]

At(c, where) == at' = [at EXCEPT ![c] = where]
Here(c) == items[item[c]]
Present == {n \in Item : items[n] # None}
Skip(c, reason) == /\ skipped' = [skipped EXCEPT ![c] = @ \cup {<<item[c], reason>>}]
                   /\ At(c, "scan")

-----------------------------------------------------------------------------
\* mutant: wherever it leads
OpenAnywhere(c) ==
  /\ at[c] = "open" /\ At(c, "list")
  /\ checked' = [checked EXCEPT ![c].dir = TRUE]
  /\ UNCHANGED <<files, asked, todo, item, scanned, deleted, skipped, removed>>

(* The path is a directory inside, no link, and resolves inside; from here *)
(* on its resolved form is used.                                           *)
Open(c) ==
  /\ at[c] = "open" /\ At(c, IF leads = "inside" THEN "list" ELSE "refused")
  /\ checked' = [checked EXCEPT ![c].dir = (leads = "inside")]
  /\ UNCHANGED <<files, asked, todo, item, scanned, deleted, skipped, removed>>

\* iterdir reads all names at once
List(c) ==
  /\ at[c] = "list" /\ At(c, "scan") /\ todo' = [todo EXCEPT ![c] = Present]
  /\ UNCHANGED <<files, asked, item, scanned, deleted, skipped, removed, checked>>

\* The next item of the loop, in the order of the directory
Scan(c) ==
  /\ at[c] = "scan" /\ todo[c] # {}
  /\ \E n \in todo[c] :
       /\ item' = [item EXCEPT ![c] = n]
       /\ IF scanned[c] >= limit[c]
          THEN /\ skipped' = [skipped EXCEPT ![c] = @ \cup {<<n, "limit">>}]
               /\ At(c, "returned") /\ UNCHANGED <<todo, scanned>>
          ELSE /\ todo' = [todo EXCEPT ![c] = @ \ {n}]
               /\ scanned' = [scanned EXCEPT ![c] = @ + 1]
               /\ At(c, "link") /\ UNCHANGED skipped
  /\ UNCHANGED <<files, asked, deleted, removed, checked>>

EndScan(c) == /\ at[c] = "scan" /\ todo[c] = {} /\ At(c, "returned")
              /\ UNCHANGED <<files, asked, todo, item, scanned, deleted, skipped,
                             removed, checked>>

\* _is_clean_candidate: no link by lstat
CheckLink(c) ==
  /\ at[c] = "link"
  /\ IF Here(c).kind = "link" THEN Skip(c, "link")
     ELSE At(c, "age") /\ UNCHANGED skipped
  /\ checked' = [checked EXCEPT ![c].item = TRUE]
  /\ UNCHANGED <<files, asked, todo, item, scanned, deleted, removed>>

(* Then its age by stat, which follows a link that came in between; in a   *)
(* dry run the item is a candidate, and that is all.                       *)
CheckAge(c) ==
  /\ at[c] = "age"
  /\ \/ Here(c) = None /\ Skip(c, "error") /\ UNCHANGED deleted
     \/ Here(c) # None /\ ~Here(c).old /\ Skip(c, "young") /\ UNCHANGED deleted
     \/ /\ Here(c) # None /\ Here(c).old
        /\ IF dry[c] THEN deleted' = [deleted EXCEPT ![c] = @ \cup {item[c]}] /\ At(c, "scan")
           ELSE At(c, "delete") /\ UNCHANGED deleted
        /\ UNCHANGED skipped
  /\ UNCHANGED <<files, asked, todo, item, scanned, removed, checked>>

\* What other calls looked at is not what is there any more (history)
Stale(n, but) == checked' = [d \in Cleaner |-> IF d # but /\ item[d] = n
                                               THEN [checked[d] EXCEPT !.item = FALSE]
                                               ELSE checked[d]]

\* mutant: an item that could not be removed is counted as deleted
DeleteCounts(c) ==
  /\ at[c] = "delete" /\ At(c, "scan") /\ UNCHANGED skipped
  /\ deleted' = [deleted EXCEPT ![c] = @ \cup {item[c]}]
  /\ \/ /\ Here(c) # None
        /\ items' = [items EXCEPT ![item[c]] = None]
        /\ removed' = [removed EXCEPT ![c] = @ \cup {item[c]}] /\ Stale(item[c], c)
     \/ UNCHANGED <<items, removed, checked>>
  /\ UNCHANGED <<leads, touches, asked, todo, item, scanned>>

(* rmtree or unlink of the name: removed; or it raises, with nothing done, *)
(* or with a directory half emptied.  rmtree does not follow a link, and   *)
(* unlink removes the link itself.                                         *)
Delete(c) ==
  /\ at[c] = "delete"
  /\ \/ /\ Here(c) # None
        /\ items' = [items EXCEPT ![item[c]] = None]
        /\ removed' = [removed EXCEPT ![c] = @ \cup {item[c]}]
        /\ deleted' = [deleted EXCEPT ![c] = @ \cup {item[c]}] /\ At(c, "scan")
        /\ Stale(item[c], c) /\ UNCHANGED skipped
     \/ Skip(c, "error") /\ UNCHANGED <<items, removed, deleted, checked>>
     \/ /\ Here(c).kind = "dir" /\ Skip(c, "error")
        /\ items' = [items EXCEPT ![item[c]].old = FALSE]
        /\ removed' = [removed EXCEPT ![c] = @ \cup {item[c]}]
        /\ Stale(item[c], c) /\ UNCHANGED deleted
  /\ UNCHANGED <<leads, touches, asked, todo, item, scanned>>

-----------------------------------------------------------------------------
\* An item is created, written to, replaced, removed or renamed
Touch ==
  /\ touches < MaxTouches /\ touches' = touches + 1
  /\ \E n \in Item, new \in Content :
       /\ items' = [items EXCEPT ![n] = new]
       /\ checked' = [c \in Cleaner |-> [checked[c] EXCEPT !.item = @ /\ item[c] # n]]
  /\ UNCHANGED <<leads, at, asked, todo, item, scanned, deleted, skipped, removed>>

\* The directory is replaced, by a link that leads elsewhere or another one
Redirect ==
  /\ touches < MaxTouches /\ touches' = touches + 1
  /\ leads' \in Place /\ items' \in [Item -> Content]
  /\ checked' = [c \in Cleaner |-> [dir |-> FALSE, item |-> FALSE]]
  /\ UNCHANGED <<at, asked, todo, item, scanned, deleted, skipped, removed>>

CleanStep(c) == \/ Open(c) \/ List(c) \/ Scan(c) \/ EndScan(c)
                \/ CheckLink(c) \/ CheckAge(c) \/ Delete(c)
CleanNext == (\E c \in Cleaner : CleanStep(c)) \/ Touch \/ Redirect
CleanSpec == CleanInit /\ [][CleanNext]_cleanVars
-----------------------------------------------------------------------------
CleanTypeOK ==
  /\ leads \in Place /\ items \in [Item -> Content] /\ touches \in 0..MaxTouches
  /\ at \in [Cleaner -> {"open", "refused", "list", "scan", "link", "age", "delete", "returned"}]
  /\ dry \in [Cleaner -> BOOLEAN] /\ limit \in [Cleaner -> Limit]
  /\ todo \in [Cleaner -> SUBSET Item] /\ item \in [Cleaner -> Item]
  /\ scanned \in [Cleaner -> Nat]
  /\ deleted \in [Cleaner -> SUBSET Item] /\ removed \in [Cleaner -> SUBSET Item]
  /\ skipped \in [Cleaner -> SUBSET (Item \X {"link", "young", "error", "limit"})]
  /\ checked \in [Cleaner -> [dir : BOOLEAN, item : BOOLEAN]]

(* What a call removes is an old file or directory that is no link, in a   *)
(* directory inside; otherwise the item, or the directory itself, was      *)
(* replaced after the call looked at it (temp_clean_tool.py 31-35, 55-71). *)
RemovesJudged ==
  [][\A c \in Cleaner :
       removed'[c] # removed[c] =>
         /\ checked[c].dir => leads = "inside"
         /\ checked[c].item => Here(c).old /\ Here(c).kind \in {"file", "dir"}]_cleanVars

(* What a call lists is what it did: nothing in a dry run; otherwise what  *)
(* it lists as deleted is gone by its hand, what it touched and does not   *)
(* list so is skipped with an error, and all of it is within the limit     *)
(* (temp_clean_tool.py 48-90).                                             *)
CleanReportTrue ==
  \A c \in Cleaner :
    /\ dry[c] \/ at[c] = "refused" => removed[c] = {}
    /\ ~dry[c] => deleted[c] \subseteq removed[c]
    /\ \A n \in removed[c] \ deleted[c] : <<n, "error">> \in skipped[c]
    /\ Cardinality(removed[c] \cup deleted[c]) <= limit[c]
=============================================================================
