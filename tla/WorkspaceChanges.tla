-------------------------- MODULE WorkspaceChanges --------------------------
(***************************************************************************)
(* What a run says it changed.                                             *)
(*                                                                         *)
(* When a run starts, a bounded scan of the workspace is kept as its       *)
(* baseline (ide/changes.py, capture).  While it goes on, the bridge       *)
(* (agent/events.py) scans again before each action that may write, and    *)
(* compares when the action's observation arrives; actions that were       *)
(* outstanding together are marked ambiguous and claim nothing from the    *)
(* scan.  The change set of the run is the comparison of the workspace     *)
(* with the run's baseline, to which attribute_changes adds the actions    *)
(* that claim each path and the validations that saw its final contents.   *)
(* It is computed on every request of the changes route and once more,     *)
(* for keeping, when the run ends: the invariants below therefore speak of *)
(* the change set of every state.                                          *)
(*                                                                         *)
(* A scan is one step here.  Files have no contents but a text; the scan   *)
(* hashes the Small ones and sees of the Large ones only size and time.    *)
(***************************************************************************)
EXTENDS Naturals, FiniteSets

CONSTANTS
    Paths,          \* in the order of the scan
    Small, Large,   \* texts within and beyond hash_limit
    Actions,        \* the actions the model proposes during the run
    Workspaces,     \* the texts a run may find: functions from Paths
    FileLimit,      \* file_limit; content_budget, which also cuts a scan short, is left out
    MaxWrites       \* bound: writes to the workspace during the run

ASSUME PathsAssumption == Paths \subseteq Nat \ {0} /\ IsFiniteSet(Paths)
ASSUME LimitsAssumption == FileLimit \in Nat /\ MaxWrites \in Nat
ASSUME ActionsAssumption == "user" \notin Actions
ASSUME TextsAssumption ==
    /\ Small \cap Large = {} /\ "none" \notin Small \cup Large
    /\ \A w \in Workspaces : w \in [Paths -> Small \cup Large \cup {"none"}]

VARIABLES
    disk,       \* the workspace
    writes,     \* how often it was written: the clock of modification times
    began,      \* the workspace when the run started
    act,        \* per action: what it is, how far it is, and what it wrote
    baselines,  \* the bridge's _action_baselines
    ambiguous,  \* the bridge's _ambiguous_actions
    outcome,    \* per action: the payload of tool_call_completed
    save        \* the save of the user's editor: idle, a file loaded, or past its check

vars == <<disk, writes, began, act, baselines, ambiguous, outcome, save>>

Texts == Small \cup Large
NoFile == [text |-> "none", time |-> 0]

\* The tools by the phase structured_action_metadata gives them.  An editor names its
\* path; what "execute" stands for (commands, domain tools, delegated tasks) does not.
Tools == {"editor", "execute", "inspect", "validate"}
Tracked == {"editor", "execute"}

---------------------------------------------------------------------------
(* The scan and the comparison. *)

NoDigest == "none"
Digest(file) == IF file.text \in Small THEN file.text ELSE NoDigest

\* BaselineFile: a digest when the file is small enough, and its size and time.
Seen(file) == [digest |-> Digest(file), large |-> file.text \in Large, time |-> file.time]

Before(p, S) == Cardinality({q \in S : q < p})

Capture(d) ==
    LET there == {p \in Paths : d[p] # NoFile}
        kept  == {p \in there : Before(p, there) < FileLimit}
    IN  [files     |-> [p \in kept |-> Seen(d[p])],
         truncated |-> kept # there]

Same(before, after) ==
    IF before.digest # NoDigest /\ after.digest # NoDigest
    THEN before.digest = after.digest
    ELSE before.large = after.large /\ before.time = after.time

\* before and after hold the digest of the file, or nothing when there is no file.
Change(path, previous, operation, before, after) ==
    [path      |-> path,
     previous  |-> previous,
     operation |-> operation,
     after     |-> after,
     uncertain |-> operation # "renamed" /\ NoDigest \in before \cup after]

NoPath == 0

\* The pairs of a vanished and a new path with one digest, first with first.
Renames(deleted, created, old, new) ==
    {pair \in deleted \X created :
        LET digest == old[pair[1]].digest
        IN  /\ digest # NoDigest
            /\ digest = new[pair[2]].digest
            /\ Before(pair[1], {p \in deleted : old[p].digest = digest})
                 = Before(pair[2], {p \in created : new[p].digest = digest})}

\* Mutant: compares the paths beyond the cutoff too.
CompareAnyway(d, baseline) ==
    LET current    == Capture(d)
        old        == baseline.files
        new        == current.files
        incomplete == baseline.truncated \/ current.truncated
        deleted    == DOMAIN old \ DOMAIN new
        created    == DOMAIN new \ DOMAIN old
        renamed    == Renames(deleted, created, old, new)
        from       == {pair[1] : pair \in renamed}
        to         == {pair[2] : pair \in renamed}
    IN  [truncated |-> incomplete,
         files |->
            {Change(pair[2], pair[1], "renamed", {old[pair[1]].digest}, {new[pair[2]].digest}) :
                pair \in renamed}
            \cup {Change(p, NoPath, "created", {}, {new[p].digest}) : p \in created \ to}
            \cup {Change(p, NoPath, "deleted", {old[p].digest}, {}) : p \in deleted \ from}
            \cup {Change(p, NoPath, "modified", {old[p].digest}, {new[p].digest}) :
                    p \in {q \in DOMAIN old \cap DOMAIN new : ~ Same(old[q], new[q])}}]

Compare(d, baseline) ==
    LET current    == Capture(d)
        old        == baseline.files
        new        == current.files
        incomplete == baseline.truncated \/ current.truncated
        deleted    == IF incomplete THEN {} ELSE DOMAIN old \ DOMAIN new
        created    == IF incomplete THEN {} ELSE DOMAIN new \ DOMAIN old
        renamed    == Renames(deleted, created, old, new)
        from       == {pair[1] : pair \in renamed}
        to         == {pair[2] : pair \in renamed}
    IN  [truncated |-> incomplete,
         files |->
            {Change(pair[2], pair[1], "renamed", {old[pair[1]].digest}, {new[pair[2]].digest}) :
                pair \in renamed}
            \cup {Change(p, NoPath, "created", {}, {new[p].digest}) : p \in created \ to}
            \cup {Change(p, NoPath, "deleted", {old[p].digest}, {}) : p \in deleted \ from}
            \cup {Change(p, NoPath, "modified", {old[p].digest}, {new[p].digest}) :
                    p \in {q \in DOMAIN old \cap DOMAIN new : ~ Same(old[q], new[q])}}]

---------------------------------------------------------------------------
(* The state of an action. *)

Idle == [at |-> "idle", tool |-> "none", path |-> NoPath, wrote |-> {}, foreign |-> {}]
Outstanding == {a \in Actions : act[a].at = "running"}

\* What the bridge never saw: an action without an observation so far.
NoOutcome == [failed |-> TRUE, affected |-> {}, validated |-> {}, saw |-> [p \in Paths |-> NoFile]]

NoSave == [at |-> "idle", path |-> NoPath, text |-> "none"]

\* The workspace is written, by an action or by nobody the bridge listens to.  The two
\* ghosts: an action remembers the paths it wrote, and while it is outstanding those
\* the untracked wrote.
WriteAs(writer, d) ==
    LET touched == {p \in Paths : d[p] # disk[p]}
        tracked == writer \in Actions /\ act[writer].tool \in Tracked
    IN  /\ writes < MaxWrites
        /\ touched # {}
        /\ disk' = d
        /\ writes' = writes + 1
        /\ act' = [a \in Actions |->
             [act[a] EXCEPT !.wrote = @ \cup IF a = writer THEN touched ELSE {},
                            !.foreign = @ \cup IF ~ tracked /\ a \in Outstanding
                                               THEN touched ELSE {}]]

\* A file as a write leaves it; the time of a small one tells nobody anything.
Written(text) == [text |-> text, time |-> IF text \in Large THEN writes + 1 ELSE 0]

---------------------------------------------------------------------------
(* The bridge's two handlers, and what happens between them. *)

\* Mutant: only the later of two overlapping actions is ambiguous.
StartMarksItself(a, tool, path) ==
    /\ act[a].at = "idle"
    /\ act' = [act EXCEPT ![a] = [Idle EXCEPT !.at = "running", !.tool = tool, !.path = path]]
    /\ IF tool \in Tracked
       THEN /\ ambiguous' = IF DOMAIN baselines = {} THEN ambiguous
                            ELSE ambiguous \cup {a}
            /\ baselines' = [b \in DOMAIN baselines \cup {a} |->
                               IF b = a THEN Capture(disk) ELSE baselines[b]]
       ELSE UNCHANGED <<baselines, ambiguous>>
    /\ UNCHANGED <<disk, writes, began, outcome, save>>

\* _action: a baseline for what may write; if others are outstanding, all are ambiguous.
Start(a, tool, path) ==
    /\ act[a].at = "idle"
    /\ act' = [act EXCEPT ![a] = [Idle EXCEPT !.at = "running", !.tool = tool, !.path = path]]
    /\ IF tool \in Tracked
       THEN /\ ambiguous' = IF DOMAIN baselines = {} THEN ambiguous
                            ELSE ambiguous \cup DOMAIN baselines \cup {a}
            /\ baselines' = [b \in DOMAIN baselines \cup {a} |->
                               IF b = a THEN Capture(disk) ELSE baselines[b]]
       ELSE UNCHANGED <<baselines, ambiguous>>
    /\ UNCHANGED <<disk, writes, began, outcome, save>>

Propose(a) ==
    \/ \E path \in Paths : Start(a, "editor", path)
    \/ \E tool \in Tools \ {"editor"} : Start(a, tool, NoPath)

\* An outstanding action writes.  A command of any phase may: "sed -i" inspects, and a
\* test run leaves files.
Edit(a) ==
    /\ act[a].at = "running" /\ act[a].tool = "editor"
    /\ \E text \in Texts : WriteAs(a, [disk EXCEPT ![act[a].path] = Written(text)])
    /\ UNCHANGED <<began, baselines, ambiguous, outcome, save>>

Command(a) ==
    /\ act[a].at = "running" /\ act[a].tool # "editor"
    /\ \/ \E p \in Paths, text \in Texts : WriteAs(a, [disk EXCEPT ![p] = Written(text)])
       \/ \E p \in Paths : WriteAs(a, [disk EXCEPT ![p] = NoFile])
       \/ \E p, q \in Paths : /\ disk[p] # NoFile /\ disk[q] = NoFile
                              /\ WriteAs(a, [disk EXCEPT ![p] = NoFile, ![q] = disk[p]])
    /\ UNCHANGED <<began, baselines, ambiguous, outcome, save>>

\* What a validation of the whole workspace records: every file the run had changed, as
\* it is when the validation ends.
Validated ==
    {[path |-> c.path, digest |-> c.after] :
        c \in {k \in Compare(disk, Capture(began)).files : k.after # {} /\ ~ k.uncertain}}

\* _observation.  An edit that succeeded did write.
Observe(a, failed) ==
    /\ act[a].at = "running"
    /\ act[a].tool = "editor" => failed \/ act[a].path \in act[a].wrote
    /\ act' = [act EXCEPT ![a].at = "observed"]
    /\ baselines' = [b \in DOMAIN baselines \ {a} |-> baselines[b]]
    /\ ambiguous' = ambiguous \ {a}
    /\ outcome' = [outcome EXCEPT ![a] =
         [failed    |-> failed,
          affected  |-> IF a \in DOMAIN baselines /\ a \notin ambiguous
                        THEN {c.path : c \in Compare(disk, baselines[a]).files} ELSE {},
          validated |-> IF act[a].tool = "validate" /\ ~ failed THEN Validated ELSE {},
          saw       |-> IF act[a].tool = "validate" THEN disk ELSE NoOutcome.saw]]
    /\ UNCHANGED <<disk, writes, began, save>>

\* An action the user rejects or that ends in an AgentErrorEvent gets no observation:
\* its baseline stays.
Vanish(a) ==
    /\ act[a].at = "running"
    /\ act' = [act EXCEPT ![a].at = "vanished"]
    /\ UNCHANGED <<disk, writes, began, baselines, ambiguous, outcome, save>>

---------------------------------------------------------------------------
(* The user's editor: editable_file and save_editable_file. *)

Load(p) ==
    /\ save.at = "idle" /\ disk[p].text \in Small
    /\ save' = [at |-> "loaded", path |-> p, text |-> disk[p].text]
    /\ UNCHANGED <<disk, writes, began, act, baselines, ambiguous, outcome>>

CheckSave ==
    /\ save.at = "loaded"
    /\ save' = IF disk[save.path].text = save.text THEN [save EXCEPT !.at = "checked"] ELSE NoSave
    /\ UNCHANGED <<disk, writes, began, act, baselines, ambiguous, outcome>>

Save(text) ==
    /\ save.at = "checked"
    /\ IF disk[save.path] \in {NoFile, Written(text)}
       THEN UNCHANGED <<disk, writes, act>>
       ELSE WriteAs("user", [disk EXCEPT ![save.path] = Written(text)])
    /\ save' = NoSave
    /\ UNCHANGED <<began, baselines, ambiguous, outcome>>

---------------------------------------------------------------------------
Init ==
    /\ \E w \in Workspaces : began = [p \in Paths |-> [text |-> w[p], time |-> 0]]
    /\ disk = began
    /\ writes = 0
    /\ act = [a \in Actions |-> Idle]
    /\ baselines = [a \in {} |-> Capture(began)]
    /\ ambiguous = {}
    /\ outcome = [a \in Actions |-> NoOutcome]
    /\ save = NoSave

Next ==
    \/ \E a \in Actions :
        \/ Propose(a) \/ Edit(a) \/ Command(a) \/ Vanish(a)
        \/ \E failed \in BOOLEAN : Observe(a, failed)
    \/ \E p \in Paths : Load(p)
    \/ CheckSave
    \/ \E text \in Small : Save(text)

Spec == Init /\ [][Next]_vars

---------------------------------------------------------------------------
(* The change set of the run: the comparison and its attribution. *)

ChangeSet == Compare(disk, Capture(began))

\* Only successful actions claim: what an edit names, what the scan of an action found.
Claimants(change) ==
    {a \in Actions :
        /\ ~ outcome[a].failed
        /\ \/ act[a].tool = "editor" /\ act[a].path = change.path
           \/ change.path \in outcome[a].affected}

\* Mutant: a validation counts for a path it saw, whatever the text.
ValidationsByPath(change) ==
    {a \in Actions : /\ ~ outcome[a].failed
                     /\ \E v \in outcome[a].validated : v.path = change.path}

Validations(change) ==
    {a \in Actions : /\ ~ outcome[a].failed
                     /\ change.after \notin {{}, {NoDigest}}
                     /\ [path |-> change.path, digest |-> change.after] \in outcome[a].validated}

---------------------------------------------------------------------------
\* The change set claims nothing that is not so, and when no scan was cut short it
\* leaves nothing out: a created file was not there, a deleted one is gone, a rename
\* moved a text, a modified file reads differently unless marked uncertain.  A large
\* file the scan tells by its size and time alone: one that takes the place of another
\* and brings its time along goes unseen.  Compares the bounded scans of changes.py with
\* the workspace itself.
Tellable(before, after) ==
    /\ before.text # after.text
    /\ {before.text, after.text} \subseteq Large => before.time # after.time
ChangesAreReal ==
    /\ \A c \in ChangeSet.files :
        CASE c.operation = "created"  -> began[c.path] = NoFile /\ disk[c.path] # NoFile
          [] c.operation = "deleted"  -> began[c.path] # NoFile /\ disk[c.path] = NoFile
          [] c.operation = "renamed"  -> /\ began[c.path] = NoFile
                                         /\ disk[c.previous] = NoFile
                                         /\ disk[c.path].text = began[c.previous].text
          [] c.operation = "modified" -> /\ NoFile \notin {began[c.path], disk[c.path]}
                                         /\ c.uncertain \/ began[c.path].text # disk[c.path].text
    /\ ~ ChangeSet.truncated =>
        {p \in Paths : Tellable(began[p], disk[p])}
          \subseteq {c.path : c \in ChangeSet.files} \cup {c.previous : c \in ChangeSet.files}

\* An action is credited with a path only if it wrote it, or somebody the bridge does
\* not follow (the user's editor, an inspecting command, a validation) wrote it while
\* the action was outstanding.  In particular never with the write of another tracked
\* action, however the two overlapped.
AttributionIsFounded ==
    \A c \in ChangeSet.files : \A a \in Claimants(c) :
        c.path \in act[a].wrote \cup act[a].foreign

\* A validation recorded with a change passed, and ended on the text the file has now:
\* anything written since takes the evidence away.
ValidationIsCurrent ==
    \A c \in ChangeSet.files : \A v \in Validations(c) :
        /\ act[v].at = "observed" /\ act[v].tool = "validate"
        /\ outcome[v].saw[c.path].text = disk[c.path].text
=============================================================================
