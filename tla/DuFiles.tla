------------------------------ MODULE DuFiles -------------------------------
(***************************************************************************)
(* GNU du under foreactor: the depth-first walk of fts_read, the session   *)
(* calls foreactor's authors put around it (Enter, Leave, Pause, Resume)   *)
(* and the du_files plugin, which looks ahead along fts's list of siblings *)
(* to pre-issue the fstatat calls of a directory.                          *)
(*                                                                         *)
(* The graph is a single loop, fstatat -> next_file -> fstatat, so an      *)
(* epoch is a number and the k-th intercepted fstatat has epoch k.  What a *)
(* prepared request goes through afterwards is the subject of PreIssue;    *)
(* here a request is its arguments.                                        *)
(***************************************************************************)
EXTENDS Integers, Sequences, SequencesExt, Functions, TLC

(* How du may be built and run: the trees it may be asked to walk, the     *)
(* values of DEPTH_1, FTS_MAX_READDIR_ENTRIES, and whether the build has   *)
(* assertions.                                                             *)
CONSTANT Setups

ASSUME SetupsAssumption ==
  \A s \in Setups :
    /\ s.depths \subseteq Nat
    /\ s.max_entries \in Nat \ {0}
    /\ s.debug \in BOOLEAN

NULL == "null"
\* The name of every tree's root, du's argument.
Root == "root"
\* Where du was started.
Start == "cwd"

VARIABLES setup,    \* how this du was built and is run
          tree,     \* directories to the sequence of their entries
          depth,    \* pre_issue_depth
          pc,       \* what du does next: idle, read, process or close
          cur,      \* fts_cur
          info,     \* fts_info of every entry
          cwd,      \* the directory fts_cwd_fd is open on
          sess,     \* active_scgraph, paused_scgraph, the nesting count
          plg,      \* the plugin's globals
          win,      \* frontier, peekhead, decisions and arguments
          asserts   \* the assertions the last step failed

vars == <<setup, tree, depth, pc, cur, info, cwd, sess, plg, win, asserts>>

-----------------------------------------------------------------------------
(* The walk's data: entries, their siblings and parents. *)

MaxEntries == setup.max_entries

Dirs == DOMAIN tree
Entries == {Root} \cup UNION {ToSet(tree[d]) : d \in Dirs}

Parent(e) == IF e = Root THEN Start
             ELSE CHOOSE d \in Dirs : e \in ToSet(tree[d])

Place(e) == CHOOSE i \in DOMAIN tree[Parent(e)] : tree[Parent(e)][i] = e

(* fts_build stops after max_entries entries and leaves the directory open *)
(* even when there are no more: fts_dirp is set at the end of such a list. *)
BatchEnd(e) == e # Root /\ Place(e) % MaxEntries = 0

(* fts_link: the next entry of the list fts_build returned. *)
Link(e) == IF e = Root \/ BatchEnd(e) \/ Place(e) = Len(tree[Parent(e)])
           THEN NULL
           ELSE tree[Parent(e)][Place(e) + 1]

\* What fts_stat finds out about an entry.
StatInfo(e) == IF e \in Dirs THEN "D" ELSE "F"

-----------------------------------------------------------------------------
(* The session calls.  Each returns the session after it, and the names of *)
(* the assertions it makes that fail.                                      *)

Closed == [active |-> FALSE, paused |-> FALSE, nest |-> 0]

EnterSCGraph(s) ==
  [s EXCEPT !.active = TRUE, !.nest = s.nest + 1]

EnterFails(s) == IF ~s.active /\ s.nest # 0 THEN {"Enter"} ELSE {}

PauseCurrentSCGraph(s) ==
  [s EXCEPT !.paused = s.active, !.active = FALSE]

PauseFails(s) == IF s.active /\ ~s.paused THEN {} ELSE {"Pause"}

ResumeCurrentSCGraph(s) ==
  [s EXCEPT !.active = s.paused, !.paused = FALSE]

ResumeFails(s) == IF ~s.active /\ s.paused THEN {} ELSE {"Resume"}

\* Pausing, making calls that are not to be intercepted, and resuming.
PauseResume(s) == ResumeCurrentSCGraph(PauseCurrentSCGraph(s))
PauseResumeFails(s) ==
  PauseFails(s) \cup ResumeFails(PauseCurrentSCGraph(s))

LeaveSCGraph(s) ==
  [s EXCEPT !.nest = s.nest - 1, !.active = (s.nest > 1 /\ s.active)]

LeaveFails(s) == IF s.nest > 0 /\ (s.nest = 1 => s.active)
                 THEN {} ELSE {"Leave"}

-----------------------------------------------------------------------------
(* The plugin.  seg says that peek runs along a list of entries nobody has *)
(* stat'ed yet; cnt counts the calls of process_file.                      *)

NoPeek == [peek |-> NULL, seg |-> FALSE, cnt |-> 0]

(* Mutation: the segment begins with the entry being processed. *)
NextFile_Stay(p, e) ==
  LET next == IF p.peek = NULL THEN NULL ELSE Link(p.peek)
      more == next # NULL /\ info[next] = "NSOK"
  IN  IF p.cnt > e \/ p.peek = NULL THEN p
      ELSE IF p.seg
           THEN IF more THEN [p EXCEPT !.peek = next]
                        ELSE [p EXCEPT !.seg = FALSE]
           ELSE IF info[p.peek] = "NSOK" /\ more
                THEN [p EXCEPT !.seg = TRUE]
                ELSE p

(* branch_next_file_arggen(e): the plugin's globals after it ...           *)
NextFile(p, e) ==
  LET next == IF p.peek = NULL THEN NULL ELSE Link(p.peek)
      more == next # NULL /\ info[next] = "NSOK"
  IN  IF p.cnt > e \/ p.peek = NULL THEN p
      ELSE IF p.seg
           THEN IF more THEN [p EXCEPT !.peek = next]
                        ELSE [p EXCEPT !.seg = FALSE]
           ELSE IF info[p.peek] = "NSOK" /\ more
                THEN [p EXCEPT !.seg = TRUE, !.peek = next]
                ELSE p

(* ... and whether it takes the decision to go on. *)
Decides(p, e) == p.cnt > e \/ NextFile(p, e).seg

(* Mutation: the pointer is set back in the middle of a segment. *)
AfterProcessFile_Back(p, ent) ==
  [p EXCEPT !.cnt = p.cnt + 1, !.peek = Link(ent)]

(* Mutation: the entry is not counted. *)
AfterProcessFile_NoCount(p, ent) ==
  [p EXCEPT !.peek = IF p.seg THEN p.peek ELSE Link(ent)]

(* Mutation: the pointer stays at the entry that was processed. *)
AfterProcessFile_Lag(p, ent) ==
  [p EXCEPT !.cnt = p.cnt + 1, !.peek = IF p.seg THEN p.peek ELSE ent]

(* What the wrapper of process_file(ent) does after the real function. *)
AfterProcessFile(p, ent) ==
  [p EXCEPT !.cnt = p.cnt + 1, !.peek = IF p.seg THEN p.peek ELSE Link(ent)]

-----------------------------------------------------------------------------
(* The window: front fstatat calls were made, the peekhead is at the       *)
(* next_file branch of epoch head, dist epochs past the frontier; decided  *)
(* holds the epochs whose decision is kept, args the arguments of the      *)
(* requests that were prepared and not called for yet.                     *)

NoWindow == [front |-> 0, head |-> 0, dist |-> -1, decided |-> {},
             args |-> << >>]

(* One iteration of the peek loop of Issue: the branch, then fstatat_arggen *)
(* at the next epoch, with the directory dir as the working directory.      *)
PeekOne(x, dir) ==
  LET e == x.win.head
      known == e \in x.win.decided
      p == IF known THEN x.plg ELSE NextFile(x.plg, e)
      go == known \/ Decides(x.plg, e)
      fill == p.seg /\ e + 1 \notin DOMAIN x.win.args
  IN  IF x.stop THEN x
      ELSE IF ~go THEN [x EXCEPT !.plg = p, !.stop = TRUE]
      ELSE [x EXCEPT
             !.plg = p,
             !.win.head = e + 1,
             !.win.dist = x.win.dist + 1,
             !.win.decided = x.win.decided \cup {e},
             !.win.args = IF fill THEN x.win.args @@ (e + 1 :> <<dir, p.peek>>)
                          ELSE x.win.args]

(* The whole loop, for the frontier of epoch f. *)
Peek(p, w, f, dir) ==
  LET start == IF w.dist < 0 THEN [w EXCEPT !.head = f, !.dist = 0] ELSE w
      Step(x, i) == PeekOne(x, dir)
  IN  FoldLeft(Step, [plg |-> p, win |-> start, stop |-> FALSE],
               [i \in 1 .. depth - start.dist |-> i])

(* Nothing is intercepted, or no fstatat is made. *)
NoFstatat == [plg |-> plg, win |-> win, fails |-> {}]

(* The frontier f is pushed forward: its arguments are removed. *)
Forward(x, f) ==
  [x EXCEPT !.win.front = f + 1,
            !.win.dist = x.win.dist - 1,
            !.win.args = Restrict(x.win.args, DOMAIN x.win.args \ {f})]

(* The application's fstatat(fts_cwd_fd, ent->fts_accpath): without an     *)
(* active graph it is the kernel's; with one, GetFrontier, CheckArgs and   *)
(* Issue.  Returns the plugin, the window and the assertions that failed.  *)
Fstatat(s, ent, dir) ==
  LET f == win.front
      known == f = 0 \/ f - 1 \in win.decided
      p == IF known THEN plg ELSE NextFile(plg, f - 1)
      w == [win EXCEPT !.decided = @ \ {f - 1}]
      unready == IF known \/ Decides(plg, f - 1) THEN {} ELSE {"GetFrontier"}
      differ == IF f \in DOMAIN win.args /\ win.args[f] # <<dir, ent>>
                THEN {"CheckArgs"} ELSE {}
  IN  IF ~s.active THEN NoFstatat
      ELSE Forward(IF depth > 0 THEN Peek(p, w, f, dir) ELSE [plg |-> p, win |-> w], f)
           @@ [fails |-> unready \cup differ]

-----------------------------------------------------------------------------
Init ==
  /\ setup \in Setups
  /\ tree \in setup.trees
  /\ depth \in setup.depths
  /\ pc = "idle"
  /\ cur = NULL
  /\ info = [e \in Entries |-> "NSOK"]
  /\ cwd = Start
  /\ sess = Closed
  /\ plg = NoPeek
  /\ win = NoWindow
  /\ asserts = {}

(* The wrapper enters the graph, and du_files opens the walk of the tree:  *)
(* fts_open stats the root.                                                *)
FtsOpen ==
  /\ pc = "idle"
  /\ tree' \in setup.trees
  /\ sess' = EnterSCGraph(sess)
  /\ cur' = "init"
  /\ info' = [e \in Entries' |-> IF e = Root THEN StatInfo(e)' ELSE "NSOK"]
  /\ \E r \in {Fstatat(sess', Root, Start)} :
       /\ plg' = r.plg
       /\ win' = r.win
       /\ asserts' = EnterFails(sess) \cup r.fails
  /\ pc' = "read"
  /\ UNCHANGED <<setup, depth, cwd>>

(* fts_read arrives at entry e of the working directory dir: a directory   *)
(* is stat'ed at once, anything else is left to process_file.              *)
Arrive(s, e, dir, fails) ==
  /\ sess' = s
  /\ cur' = e
  /\ cwd' = dir
  /\ info' = IF e \in Dirs THEN [info EXCEPT ![e] = "D"] ELSE info
  /\ \E r \in {IF e \in Dirs THEN Fstatat(s, e, dir) ELSE NoFstatat} :
       /\ plg' = r.plg
       /\ win' = r.win
       /\ asserts' = fails \cup r.fails
  /\ pc' = "process"

(* The first fts_read returns the root, which fts_open has stat'ed. *)
FtsReadRoot ==
  /\ pc = "read" /\ cur = "init"
  /\ cur' = Root
  /\ pc' = "process"
  /\ UNCHANGED <<setup, tree, depth, info, cwd, sess, plg, win, asserts>>

InDir == pc = "read" /\ cur \in Entries /\ info[cur] = "D"
Passed == pc = "read" /\ cur \in Entries /\ info[cur] \in {"F", "DP"}

(* Mutation: the graph is not resumed. *)
FtsReadInto_NoResume ==
  /\ InDir /\ tree[cur] # << >>
  /\ Arrive(PauseCurrentSCGraph(sess), tree[cur][1], cur, PauseFails(sess))
  /\ UNCHANGED <<setup, tree, depth>>

(* After a directory in pre-order, its first entry.  fts_build reads the   *)
(* directory with the graph paused.                                        *)
FtsReadInto ==
  /\ InDir /\ tree[cur] # << >>
  /\ Arrive(PauseResume(sess), tree[cur][1], cur, PauseResumeFails(sess))
  /\ UNCHANGED <<setup, tree, depth>>

(* A directory without entries is at once in post-order: fts_read returns  *)
(* from between Pause and Resume.                                          *)
FtsReadEmpty ==
  /\ InDir /\ tree[cur] = << >>
  /\ sess' = PauseCurrentSCGraph(sess)
  /\ asserts' = PauseFails(sess)
  /\ info' = [info EXCEPT ![cur] = "DP"]
  /\ pc' = "process"
  /\ UNCHANGED <<setup, tree, depth, cur, cwd, plg, win>>

(* The next entry of the list. *)
FtsReadNext ==
  /\ Passed /\ Link(cur) # NULL
  /\ Arrive(sess, Link(cur), cwd, {})
  /\ UNCHANGED <<setup, tree, depth>>

Exhausted(e) == e # Root /\ Place(e) = Len(tree[Parent(e)])

(* The end of a list that fts_build cut at max_entries: the next one is    *)
(* read, again with the graph paused.                                      *)
FtsReadBatch ==
  /\ Passed /\ BatchEnd(cur) /\ ~Exhausted(cur)
  /\ Arrive(PauseResume(sess), tree[Parent(cur)][Place(cur) + 1], cwd,
            PauseResumeFails(sess))
  /\ UNCHANGED <<setup, tree, depth>>

(* No more entries: the directory in post-order.  When fts_build was asked *)
(* for one more list and found nothing, the graph is paused already.       *)
FtsReadUp ==
  /\ Passed /\ Exhausted(cur)
  /\ LET up == Parent(cur)
         s == IF BatchEnd(cur) THEN PauseCurrentSCGraph(sess) ELSE sess
     IN  /\ sess' = PauseResume(s)
         /\ asserts' = (IF BatchEnd(cur) THEN PauseFails(sess) ELSE {})
                       \cup PauseResumeFails(s)
         /\ cur' = up
         /\ cwd' = Parent(up)
         /\ info' = [info EXCEPT ![up] = "DP"]
  /\ pc' = "process"
  /\ UNCHANGED <<setup, tree, depth, plg, win>>

FtsReadDone ==
  /\ Passed /\ cur = Root
  /\ cur' = NULL
  /\ pc' = "close"
  /\ UNCHANGED <<setup, tree, depth, info, cwd, sess, plg, win, asserts>>

(* process_file and its wrapper.  An entry without stat information is     *)
(* read again, with FTS_AGAIN; except for a directory in pre-order the     *)
(* entry is printed, with the graph paused.                                *)
ProcessFile ==
  /\ pc = "process"
  /\ LET again == info[cur] = "NSOK"
         prints == info[cur] # "D"
     IN  /\ info' = IF again THEN [info EXCEPT ![cur] = "F"] ELSE info
         /\ sess' = IF prints THEN PauseResume(sess) ELSE sess
         /\ \E r \in {IF again THEN Fstatat(sess, cur, cwd) ELSE NoFstatat} :
              /\ plg' = AfterProcessFile(r.plg, cur)
              /\ win' = r.win
              /\ asserts' = r.fails \cup
                            (IF prints THEN PauseResumeFails(sess) ELSE {})
  /\ pc' = "read"
  /\ UNCHANGED <<setup, tree, depth, cur, cwd>>

(* fts_close with the graph paused; the wrapper leaves the graph, which    *)
(* resets it, and resets its own globals.                                  *)
FtsClose ==
  /\ pc = "close"
  /\ sess' = LeaveSCGraph(PauseResume(sess))
  /\ asserts' = PauseResumeFails(sess) \cup LeaveFails(PauseResume(sess))
  /\ win' = NoWindow
  /\ plg' = NoPeek
  /\ pc' = "idle"
  /\ UNCHANGED <<setup, tree, depth, cur, info, cwd>>

(* In a build with assertions a failed one ends the program. *)
Next ==
  /\ setup.debug => asserts = {}
  /\ \/ FtsOpen \/ FtsReadRoot \/ FtsReadInto \/ FtsReadEmpty
     \/ FtsReadNext \/ FtsReadBatch \/ FtsReadUp \/ FtsReadDone
     \/ ProcessFile \/ FtsClose

Spec == Init /\ [][Next]_vars

-----------------------------------------------------------------------------
(* No directory makes fts_build return nothing: none is empty, and none    *)
(* ends where a list ends.  In such directories fts_read returns between   *)
(* Pause and Resume.                                                       *)
NoEmptyList == \A d \in Dirs : Len(tree[d]) % MaxEntries # 0

(* Pause, Resume, Enter and Leave meet the state their assertions ask for  *)
(* wherever fts and du call them on a tree without empty lists, also after *)
(* walks in which the graph was lost.  On any tree, when du makes its next *)
(* fstatat in the graph, the plugin's count of processed entries is enough *)
(* for GetFrontier to decide the branch before it.                         *)
SessionAsserts ==
  /\ NoEmptyList => asserts \cap {"Enter", "Pause", "Resume", "Leave"} = {}
  /\ "GetFrontier" \notin asserts

(* SyscallFstatat::CheckArgs: a pre-issued fstatat had the directory and   *)
(* the name of the entry du stats when its turn comes.                     *)
PathnamesAgree == "CheckArgs" \notin asserts

(* The plugin's comment that "pre-issuing of fstatat's can happen for a    *)
(* segment of contiguous file entries": from the third entry of a list on, *)
(* du finds the fstatat of a file already issued, unless it has lost the   *)
(* graph.                                                                  *)
SegmentsPreIssued ==
  pc = "process" /\ sess.active /\ depth > 0 /\ cur # Root /\ info[cur] = "NSOK"
                 /\ (Place(cur) - 1) % MaxEntries >= 2
    => win.front \in DOMAIN win.args
=============================================================================
