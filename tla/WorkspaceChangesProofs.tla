----------------------- MODULE WorkspaceChangesProofs -----------------------
(***************************************************************************)
(* Proofs about WorkspaceChanges, for any workspace, texts and actions:    *)
(* the change set claims nothing that is not so and leaves out nothing it  *)
(* can tell, no action is credited with the write of another, and no       *)
(* validation with a text it did not see.                                  *)
(***************************************************************************)
EXTENDS WorkspaceChanges, TLAPS

---------------------------------------------------------------------------
(* The scan and the comparison *)

File == [text : Texts \cup {"none"}, time : Nat]

\* A workspace; without a text there is no file.
Disks == {d \in [Paths -> File] : \A p \in Paths : d[p].text = "none" => d[p] = NoFile}

\* A scan sees only files that are there, and all of them unless it is cut short.
LEMMA CaptureSees ==
    ASSUME NEW d \in Disks
    PROVE  /\ \A p \in DOMAIN Capture(d).files :
                 p \in Paths /\ d[p] # NoFile /\ Capture(d).files[p] = Seen(d[p])
           /\ ~ Capture(d).truncated =>
                 \A p \in Paths : d[p] # NoFile => p \in DOMAIN Capture(d).files
  BY DEF Capture

\* What a digest tells: a file that has one has it as its text.
LEMMA DigestTells ==
    ASSUME NEW f
    PROVE  /\ Digest(f) # NoDigest => f.text = Digest(f)
           /\ Seen(f).digest = Digest(f)
  BY DEF Digest, Seen

\* What each kind of change says of the two workspaces.
Real(c, before, after) ==
    /\ c.operation \in {"created", "deleted", "renamed", "modified"}
    /\ c.operation = "created" => before[c.path] = NoFile /\ after[c.path] # NoFile
    /\ c.operation = "deleted" => before[c.path] # NoFile /\ after[c.path] = NoFile
    /\ c.operation = "renamed" => /\ before[c.path] = NoFile /\ after[c.path] # NoFile
                                  /\ after[c.previous] = NoFile
                                  /\ after[c.path].text = before[c.previous].text
    /\ c.operation = "modified" => /\ NoFile \notin {before[c.path], after[c.path]}
                                   /\ before[c.path] # after[c.path]
                                   /\ c.uncertain \/ before[c.path].text # after[c.path].text

\* A change that the comparison of two workspaces finds is one.
LEMMA CompareIsReal ==
    ASSUME NEW before \in Disks, NEW after \in Disks,
           NEW c \in Compare(after, Capture(before)).files
    PROVE  /\ c.path \in Paths /\ Real(c, before, after)
           /\ c.after \in {{}, {Digest(after[c.path])}}
<1> DEFINE current == Capture(after)
           baseline == Capture(before)
           old == baseline.files
           new == current.files
           incomplete == baseline.truncated \/ current.truncated
           deleted == IF incomplete THEN {} ELSE DOMAIN old \ DOMAIN new
           created == IF incomplete THEN {} ELSE DOMAIN new \ DOMAIN old
           renamed == Renames(deleted, created, old, new)
<1>1. /\ \A p \in DOMAIN old : p \in Paths /\ before[p] # NoFile /\ old[p] = Seen(before[p])
      /\ ~ baseline.truncated => \A p \in Paths : before[p] # NoFile => p \in DOMAIN old
  BY CaptureSees
<1>2. /\ \A p \in DOMAIN new : p \in Paths /\ after[p] # NoFile /\ new[p] = Seen(after[p])
      /\ ~ current.truncated => \A p \in Paths : after[p] # NoFile => p \in DOMAIN new
  BY CaptureSees
<1>3. \/ \E pair \in renamed :
            c = Change(pair[2], pair[1], "renamed", {old[pair[1]].digest}, {new[pair[2]].digest})
      \/ \E p \in created : c = Change(p, NoPath, "created", {}, {new[p].digest})
      \/ \E p \in deleted : c = Change(p, NoPath, "deleted", {old[p].digest}, {})
      \/ \E p \in DOMAIN old \cap DOMAIN new :
            /\ ~ Same(old[p], new[p])
            /\ c = Change(p, NoPath, "modified", {old[p].digest}, {new[p].digest})
  BY DEF Compare
<1>4. \A pair \in renamed : /\ pair[1] \in deleted /\ pair[2] \in created
                            /\ old[pair[1]].digest # NoDigest
                            /\ old[pair[1]].digest = new[pair[2]].digest
  BY DEF Renames
<1>5. /\ \A p \in created : p \in Paths /\ before[p] = NoFile /\ after[p] # NoFile
                            /\ new[p] = Seen(after[p])
      /\ \A p \in deleted : p \in Paths /\ before[p] # NoFile /\ after[p] = NoFile
                            /\ old[p] = Seen(before[p])
  BY <1>1, <1>2
<1> HIDE DEF current, baseline, old, new, incomplete, deleted, created, renamed
<1>6. ASSUME NEW pair \in renamed,
             c = Change(pair[2], pair[1], "renamed", {old[pair[1]].digest}, {new[pair[2]].digest})
      PROVE  /\ c.path \in Paths /\ Real(c, before, after)
             /\ c.after \in {{}, {Digest(after[c.path])}}
  <2>1. /\ c.path = pair[2] /\ c.previous = pair[1] /\ c.operation = "renamed"
        /\ c.after = {new[pair[2]].digest}
    BY <1>6 DEF Change
  <2>2. /\ pair[2] \in Paths /\ before[pair[2]] = NoFile /\ after[pair[2]] # NoFile
        /\ after[pair[1]] = NoFile
        /\ new[pair[2]].digest = Digest(after[pair[2]])
        /\ old[pair[1]].digest = Digest(before[pair[1]])
    BY <1>4, <1>5, DigestTells
  <2>3. after[pair[2]].text = before[pair[1]].text
    BY <1>4, <2>2, DigestTells
  <2>4. QED
    BY <2>1, <2>2, <2>3 DEF Real
<1>7. ASSUME NEW p \in created, c = Change(p, NoPath, "created", {}, {new[p].digest})
      PROVE  /\ c.path \in Paths /\ Real(c, before, after)
             /\ c.after \in {{}, {Digest(after[c.path])}}
  BY <1>5, <1>7, DigestTells DEF Change, Real
<1>8. ASSUME NEW p \in deleted, c = Change(p, NoPath, "deleted", {old[p].digest}, {})
      PROVE  /\ c.path \in Paths /\ Real(c, before, after)
             /\ c.after \in {{}, {Digest(after[c.path])}}
  BY <1>5, <1>8 DEF Change, Real
<1>9. ASSUME NEW p \in DOMAIN old \cap DOMAIN new, ~ Same(old[p], new[p]),
             c = Change(p, NoPath, "modified", {old[p].digest}, {new[p].digest})
      PROVE  /\ c.path \in Paths /\ Real(c, before, after)
             /\ c.after \in {{}, {Digest(after[c.path])}}
  <2>1. /\ c.path = p /\ c.operation = "modified" /\ c.after = {new[p].digest}
        /\ c.uncertain <=> NoDigest \in {old[p].digest, new[p].digest}
    BY <1>9 DEF Change
  <2>2. /\ p \in Paths /\ before[p] # NoFile /\ after[p] # NoFile
        /\ old[p] = Seen(before[p]) /\ new[p] = Seen(after[p])
    BY <1>1, <1>2 DEF old, new, current, baseline
  <2>3. before[p] # after[p]
    BY <1>9, <2>2 DEF Same
  <2>4. old[p].digest # NoDigest /\ new[p].digest # NoDigest => before[p].text # after[p].text
    BY <1>9, <2>2, DigestTells DEF Same
  <2>5. QED
    BY <2>1, <2>2, <2>3, <2>4, DigestTells DEF Real
<1>10. QED
  BY <1>3, <1>6, <1>7, <1>8, <1>9

\* A comparison of two whole scans leaves out nothing it can tell.
LEMMA CompareIsWhole ==
    ASSUME NEW before \in Disks, NEW after \in Disks,
           ~ Compare(after, Capture(before)).truncated,
           NEW p \in Paths, Tellable(before[p], after[p])
    PROVE  \E c \in Compare(after, Capture(before)).files : p = c.path \/ p = c.previous
<1> DEFINE current == Capture(after)
           baseline == Capture(before)
           old == baseline.files
           new == current.files
           deleted == DOMAIN old \ DOMAIN new
           created == DOMAIN new \ DOMAIN old
           renamed == Renames(deleted, created, old, new)
           from == {pair[1] : pair \in renamed}
           to == {pair[2] : pair \in renamed}
           files == Compare(after, Capture(before)).files
<1>1. ~ baseline.truncated /\ ~ current.truncated
  BY DEF Compare
<1>2. /\ \A q \in Paths : q \in DOMAIN old <=> before[q] # NoFile
      /\ \A q \in Paths : q \in DOMAIN new <=> after[q] # NoFile
      /\ \A q \in DOMAIN old : old[q] = Seen(before[q])
      /\ \A q \in DOMAIN new : new[q] = Seen(after[q])
  BY <1>1, CaptureSees
<1>3. /\ \A pair \in renamed :
            Change(pair[2], pair[1], "renamed", {old[pair[1]].digest}, {new[pair[2]].digest})
              \in files
      /\ \A q \in created \ to : Change(q, NoPath, "created", {}, {new[q].digest}) \in files
      /\ \A q \in deleted \ from : Change(q, NoPath, "deleted", {old[q].digest}, {}) \in files
      /\ \A q \in DOMAIN old \cap DOMAIN new :
            ~ Same(old[q], new[q]) =>
               Change(q, NoPath, "modified", {old[q].digest}, {new[q].digest}) \in files
  BY <1>1 DEF Compare
<1> SUFFICES \E c \in files : p = c.path \/ p = c.previous
  OBVIOUS
<1> HIDE DEF current, baseline, old, new, deleted, created, renamed, files
<1>5. CASE p \in DOMAIN old \cap DOMAIN new
  <2>1. /\ before[p] \in File /\ after[p] \in File
        /\ before[p].text # "none" /\ after[p].text # "none"
        /\ before[p].text # after[p].text
    BY <1>2, <1>5 DEF Disks, Tellable
  <2>2. ~ Same(old[p], new[p])
    <3>1. CASE {before[p].text, after[p].text} \subseteq Large
      <4>1. Digest(before[p]) = NoDigest
        BY <3>1, TextsAssumption DEF Digest
      <4>2. before[p].time # after[p].time
        BY <3>1 DEF Tellable
      <4>3. QED
        BY <1>2, <1>5, <4>1, <4>2 DEF Same, Seen
    <3>2. CASE {before[p].text, after[p].text} \subseteq Small
      BY <1>2, <1>5, <2>1, <3>2, TextsAssumption DEF Same, Seen, Digest, NoDigest
    <3>3. CASE before[p].text \in Large /\ after[p].text \in Small
      BY <1>2, <1>5, <2>1, <3>3, TextsAssumption DEF Same, Seen, Digest, NoDigest
    <3>4. CASE before[p].text \in Small /\ after[p].text \in Large
      BY <1>2, <1>5, <2>1, <3>4, TextsAssumption DEF Same, Seen, Digest, NoDigest
    <3>5. QED
      BY <2>1, <3>1, <3>2, <3>3, <3>4 DEF File, Texts
  <2>3. Change(p, NoPath, "modified", {old[p].digest}, {new[p].digest}) \in files
    BY <1>3, <1>5, <2>2
  <2>4. QED
    BY <2>3 DEF Change
<1>6. CASE p \in DOMAIN old \ DOMAIN new
  <2>1. CASE \E pair \in renamed : pair[1] = p
    <3>1. PICK pair \in renamed : pair[1] = p
      BY <2>1
    <3>2. Change(pair[2], pair[1], "renamed", {old[pair[1]].digest}, {new[pair[2]].digest})
             \in files
      BY <1>3
    <3>3. QED
      BY <3>1, <3>2 DEF Change
  <2>2. CASE ~ (\E pair \in renamed : pair[1] = p)
    <3>1. Change(p, NoPath, "deleted", {old[p].digest}, {}) \in files
      BY <1>3, <1>6, <2>2 DEF deleted
    <3>2. QED
      BY <3>1 DEF Change
  <2>3. QED
    BY <2>1, <2>2
<1>7. CASE p \in DOMAIN new \ DOMAIN old
  <2>1. CASE \E pair \in renamed : pair[2] = p
    <3>1. PICK pair \in renamed : pair[2] = p
      BY <2>1
    <3>2. Change(pair[2], pair[1], "renamed", {old[pair[1]].digest}, {new[pair[2]].digest})
             \in files
      BY <1>3
    <3>3. QED
      BY <3>1, <3>2 DEF Change
  <2>2. CASE ~ (\E pair \in renamed : pair[2] = p)
    <3>1. Change(p, NoPath, "created", {}, {new[p].digest}) \in files
      BY <1>3, <1>7, <2>2 DEF created
    <3>2. QED
      BY <3>1 DEF Change
  <2>3. QED
    BY <2>1, <2>2
<1>8. p \in DOMAIN old \/ p \in DOMAIN new
  BY <1>2 DEF Tellable
<1>9. QED
  BY <1>5, <1>6, <1>7, <1>8

---------------------------------------------------------------------------
(* The inductive invariant *)

Records == [at : {"idle", "running", "observed", "vanished"}, tool : Tools \cup {"none"},
            path : Paths \cup {NoPath}, wrote : SUBSET Paths, foreign : SUBSET Paths]

\* The types that the arguments below need.
Types ==
    /\ disk \in Disks /\ began \in Disks /\ writes \in Nat
    /\ act \in [Actions -> Records]
    /\ DOMAIN outcome = Actions /\ outcome = [a \in Actions |-> outcome[a]]

\* Whoever edits a file, an action or the user, names one.
EditorsNameAFile == \A a \in Actions : act[a].tool = "editor" => act[a].path \in Paths

SavesNameAFile ==
    /\ save \in [at : {"idle", "loaded", "checked"}, path : Paths \cup {NoPath},
                 text : Texts \cup {"none"}]
    /\ save.at # "idle" => save.path \in Paths

\* The bridge keeps a baseline of every action that may write and has no observation.
BaselinesAreKept ==
    /\ DOMAIN baselines \subseteq Actions
    /\ \A a \in DOMAIN baselines : act[a].at \in {"running", "vanished"}
    /\ \A a \in Actions :
          act[a].at = "running" /\ act[a].tool \in Tracked => a \in DOMAIN baselines

\* Of the outstanding actions at most one is not ambiguous, and then it is alone.
OverlapsAreAmbiguous == \A a, b \in DOMAIN baselines : a # b => a \in ambiguous

\* What differs from the baseline of that one was written while it was outstanding, by
\* it or by somebody the bridge does not follow.
Watched(a) == \E before \in Disks :
    /\ baselines[a] = Capture(before)
    /\ \A p \in Paths : disk[p] # before[p] => p \in act[a].wrote \cup act[a].foreign

BaselinesAreWatched ==
    \A a \in DOMAIN baselines \ ambiguous : act[a].at = "running" => Watched(a)

\* What an action that succeeded may claim.
Founded(a) ==
    /\ act[a].at # "observed" => /\ outcome[a].failed
                                 /\ outcome[a].affected = {} /\ outcome[a].validated = {}
    /\ outcome[a].affected \subseteq act[a].wrote \cup act[a].foreign
    /\ ~ outcome[a].failed => /\ act[a].at = "observed"
                              /\ act[a].tool = "editor" => act[a].path \in act[a].wrote
    /\ outcome[a].validated # {} => act[a].at = "observed" /\ act[a].tool = "validate"
    /\ \A v \in outcome[a].validated : v.digest = {Digest(outcome[a].saw[v.path])}

IInv ==
    /\ Types
    /\ EditorsNameAFile
    /\ SavesNameAFile
    /\ BaselinesAreKept
    /\ OverlapsAreAmbiguous
    /\ BaselinesAreWatched
    /\ \A a \in Actions : Founded(a)

---------------------------------------------------------------------------
(* The steps *)

\* At the start nothing is outstanding.
LEMMA InitInv == Init => IInv
<1> SUFFICES ASSUME Init  PROVE IInv
  OBVIOUS
<1>1. Types
  <2>1. PICK w \in Workspaces : began = [p \in Paths |-> [text |-> w[p], time |-> 0]]
    BY DEF Init
  <2>2. began \in Disks
    BY <2>1, TextsAssumption DEF Disks, File, Texts, NoFile
  <2>3. Idle \in Records
    BY DEF Idle, Records
  <2>4. QED
    BY <2>2, <2>3 DEF Init, Types
<1>2. DOMAIN baselines = {}
  BY DEF Init
<1>3. \A a \in Actions : act[a].at = "idle"
  BY DEF Init, Idle
<1>4. \A a \in Actions : Founded(a)
  BY DEF Init, Founded, NoOutcome
<1>5. EditorsNameAFile /\ SavesNameAFile
  BY DEF Init, EditorsNameAFile, SavesNameAFile, Idle, NoSave
<1>6. QED
  BY <1>1, <1>2, <1>3, <1>4, <1>5
     DEF IInv, BaselinesAreKept, OverlapsAreAmbiguous, BaselinesAreWatched

\* A step that leaves an action's record and what is claimed for it alone.
LEMMA FoundedStays ==
    ASSUME NEW a \in Actions, Founded(a), outcome'[a] = outcome[a],
           act'[a].at = act[a].at \/ (act[a].at # "observed" /\ act'[a].at # "observed"),
           act'[a].tool = act[a].tool, act'[a].path = act[a].path,
           act[a].wrote \subseteq act'[a].wrote, act[a].foreign \subseteq act'[a].foreign
    PROVE  Founded(a)'
  BY DEF Founded

\* An action is proposed.
LEMMA StartStep ==
    ASSUME IInv, NEW a \in Actions, NEW tool \in Tools, NEW path \in Paths \cup {NoPath},
           Start(a, tool, path), tool = "editor" => path \in Paths
    PROVE  IInv'
<1> DEFINE record == [Idle EXCEPT !.at = "running", !.tool = tool, !.path = path]
<1>1. /\ Types /\ act[a].at = "idle" /\ act' = [act EXCEPT ![a] = record]
      /\ UNCHANGED <<disk, writes, began, outcome, save>>
  BY DEF Start, IInv
<1>2. /\ record \in Records /\ record.at = "running" /\ record.tool = tool
      /\ record.path = path /\ record.wrote = {} /\ record.foreign = {}
  BY DEF Idle, Records
<1> HIDE DEF record
<1>3. /\ act'[a] = record /\ \A b \in Actions \ {a} : act'[b] = act[b]
      /\ act' \in [Actions -> Records] /\ Types'
  BY <1>1, <1>2 DEF Types
<1>4. EditorsNameAFile' /\ SavesNameAFile'
  BY <1>1, <1>2, <1>3 DEF IInv, EditorsNameAFile, SavesNameAFile
<1>5. a \notin DOMAIN baselines
  BY <1>1 DEF IInv, BaselinesAreKept
<1>6. Founded(a)'
  <2>1. outcome[a].affected = {} /\ outcome[a].failed /\ outcome[a].validated = {}
    BY <1>1 DEF IInv, Founded
  <2>2. outcome' = outcome
    BY <1>1
  <2>3. QED
    BY <2>1, <2>2 DEF Founded
<1>7. \A b \in Actions : Founded(b)'
  BY <1>1, <1>3, <1>6, FoundedStays DEF IInv
<1>8. CASE tool \in Tracked
  <2>1. /\ ambiguous' = IF DOMAIN baselines = {} THEN ambiguous
                        ELSE ambiguous \cup DOMAIN baselines \cup {a}
        /\ baselines' = [b \in DOMAIN baselines \cup {a} |->
                           IF b = a THEN Capture(disk) ELSE baselines[b]]
    BY <1>8 DEF Start
  <2>2. /\ DOMAIN baselines' = DOMAIN baselines \cup {a} /\ baselines'[a] = Capture(disk)
        /\ \A b \in DOMAIN baselines : baselines'[b] = baselines[b]
    BY <1>5, <2>1
  <2>3. BaselinesAreKept'
    BY <1>1, <1>2, <1>3, <2>2 DEF IInv, BaselinesAreKept
  <2>4. OverlapsAreAmbiguous'
    BY <2>1, <2>2 DEF OverlapsAreAmbiguous
  <2>5. BaselinesAreWatched'
    <3>1. SUFFICES ASSUME NEW b \in DOMAIN baselines' \ ambiguous'
                   PROVE  Watched(b)'
      BY DEF BaselinesAreWatched
    <3>2. b = a
      BY <2>1, <2>2
    <3>3. disk \in Disks /\ baselines'[b] = Capture(disk) /\ disk' = disk
      BY <1>1, <2>2, <3>2 DEF Types
    <3>4. QED
      BY <3>3 DEF Watched
  <2>6. QED
    BY <1>3, <1>7, <1>4, <2>3, <2>4, <2>5 DEF IInv
<1>9. CASE tool \notin Tracked
  <2>1. UNCHANGED <<baselines, ambiguous>>
    BY <1>9 DEF Start
  <2>2. BaselinesAreKept'
    BY <1>1, <1>2, <1>3, <1>5, <1>9, <2>1 DEF IInv, BaselinesAreKept
  <2>3. BaselinesAreWatched'
    <3>1. SUFFICES ASSUME NEW b \in DOMAIN baselines \ ambiguous, act'[b].at = "running"
                   PROVE  Watched(b)'
      BY <2>1 DEF BaselinesAreWatched
    <3>2. b # a /\ b \in Actions
      BY <1>5 DEF IInv, BaselinesAreKept
    <3>3. Watched(b)
      BY <1>3, <3>1, <3>2 DEF IInv, BaselinesAreWatched
    <3>4. act'[b] = act[b] /\ baselines'[b] = baselines[b] /\ disk' = disk
      BY <1>1, <1>3, <2>1, <3>2
    <3>5. QED
      BY <3>3, <3>4 DEF Watched
  <2>4. QED
    BY <1>3, <1>7, <1>4, <2>1, <2>2, <2>3 DEF IInv, OverlapsAreAmbiguous
<1>10. QED
  BY <1>8, <1>9

\* The workspace is written: whoever the bridge follows has a baseline, and is ambiguous
\* when anybody else has.
LEMMA WriteStep ==
    ASSUME IInv, NEW writer, NEW d \in Disks, WriteAs(writer, d),
           writer \in Actions => act[writer].at = "running",
           UNCHANGED <<began, baselines, ambiguous, outcome>>, SavesNameAFile'
    PROVE  IInv'
<1> DEFINE touched == {p \in Paths : d[p] # disk[p]}
           tracked == writer \in Actions /\ act[writer].tool \in Tracked
<1>1. /\ Types /\ disk' = d /\ writes' = writes + 1
      /\ act' = [a \in Actions |->
             [act[a] EXCEPT !.wrote = @ \cup IF a = writer THEN touched ELSE {},
                            !.foreign = @ \cup IF ~ tracked /\ a \in Outstanding
                                               THEN touched ELSE {}]]
  BY DEF WriteAs, IInv
<1>2. touched \subseteq Paths /\ \A p \in Paths : d[p] # disk[p] => p \in touched
  OBVIOUS
<1> HIDE DEF touched, tracked
<1>3. \A a \in Actions :
         /\ act'[a] \in Records
         /\ act'[a].at = act[a].at /\ act'[a].tool = act[a].tool /\ act'[a].path = act[a].path
         /\ act'[a].wrote = act[a].wrote \cup (IF a = writer THEN touched ELSE {})
         /\ act'[a].foreign = act[a].foreign \cup (IF ~ tracked /\ a \in Outstanding
                                                   THEN touched ELSE {})
  <2>1. SUFFICES ASSUME NEW a \in Actions
                 PROVE  /\ act'[a] \in Records
                        /\ act'[a].at = act[a].at /\ act'[a].tool = act[a].tool
                        /\ act'[a].path = act[a].path
                        /\ act'[a].wrote = act[a].wrote
                                           \cup (IF a = writer THEN touched ELSE {})
                        /\ act'[a].foreign = act[a].foreign
                                             \cup (IF ~ tracked /\ a \in Outstanding
                                                   THEN touched ELSE {})
    OBVIOUS
  <2> DEFINE mine == IF a = writer THEN touched ELSE {}
             theirs == IF ~ tracked /\ a \in Outstanding THEN touched ELSE {}
  <2>2. mine \subseteq Paths /\ theirs \subseteq Paths
    BY <1>2
  <2>3. act[a] \in Records
    BY <1>1 DEF Types
  <2>4. act'[a] = [act[a] EXCEPT !.wrote = @ \cup mine, !.foreign = @ \cup theirs]
    BY <1>1
  <2> HIDE DEF mine, theirs
  <2>5. /\ act'[a].at = act[a].at /\ act'[a].tool = act[a].tool
        /\ act'[a].path = act[a].path
        /\ act'[a].wrote = act[a].wrote \cup mine
        /\ act'[a].foreign = act[a].foreign \cup theirs
    BY <2>3, <2>4 DEF Records
  <2>6. act[a].wrote \cup mine \subseteq Paths /\ act[a].foreign \cup theirs \subseteq Paths
    BY <2>2, <2>3 DEF Records
  <2>7. act'[a] \in Records
    BY <2>3, <2>4, <2>6 DEF Records
  <2>8. QED
    BY <2>5, <2>7 DEF mine, theirs
<1>4. Types'
  <2>1. act' \in [Actions -> Records]
    <3>1. act' = [a \in Actions |-> act'[a]]
      BY <1>1
    <3>2. QED
      BY <1>3, <3>1
  <2>2. disk' \in Disks
    BY <1>1
  <2>3. writes' \in Nat
    <3>1. writes \in Nat /\ writes' = writes + 1
      BY <1>1 DEF Types
    <3>2. QED
      BY <3>1
  <2>4. began' = began /\ outcome' = outcome
    OBVIOUS
  <2>5. QED
    BY <1>1, <2>1, <2>2, <2>3, <2>4 DEF Types
<1>5. \A a \in Actions : Founded(a)'
  BY <1>3, FoundedStays DEF IInv
<1>6. BaselinesAreKept' /\ OverlapsAreAmbiguous' /\ EditorsNameAFile'
  BY <1>3 DEF IInv, BaselinesAreKept, OverlapsAreAmbiguous, EditorsNameAFile
<1>7. BaselinesAreWatched'
  <2>1. SUFFICES ASSUME NEW a \in DOMAIN baselines \ ambiguous, act'[a].at = "running"
                 PROVE  Watched(a)'
    BY DEF BaselinesAreWatched
  <2>2. a \in Actions /\ act[a].at = "running" /\ a \in Outstanding
    BY <1>3, <2>1 DEF IInv, BaselinesAreKept, Outstanding
  <2>3. PICK before \in Disks :
           /\ baselines[a] = Capture(before)
           /\ \A p \in Paths : disk[p] # before[p] => p \in act[a].wrote \cup act[a].foreign
    BY <2>2 DEF IInv, BaselinesAreWatched, Watched
  <2>4. touched \subseteq act'[a].wrote \cup act'[a].foreign
    <3>1. CASE tracked
      <4>1. writer \in DOMAIN baselines
        BY <3>1 DEF tracked, IInv, BaselinesAreKept
      <4>2. writer = a
        BY <4>1 DEF IInv, OverlapsAreAmbiguous
      <4>3. QED
        BY <1>3, <2>2, <4>2
    <3>2. CASE ~ tracked
      BY <1>3, <2>2, <3>2
    <3>3. QED
      BY <3>1, <3>2
  <2>5. \A p \in Paths : d[p] # before[p] => p \in act'[a].wrote \cup act'[a].foreign
    <3>1. SUFFICES ASSUME NEW p \in Paths, d[p] # before[p]
                   PROVE  p \in act'[a].wrote \cup act'[a].foreign
      OBVIOUS
    <3>2. CASE d[p] # disk[p]
      BY <1>2, <2>4, <3>2
    <3>3. CASE d[p] = disk[p]
      BY <1>3, <2>2, <2>3, <3>1, <3>3
    <3>4. QED
      BY <3>2, <3>3
  <2>6. QED
    BY <1>1, <2>3, <2>5 DEF Watched
<1>8. QED
  BY <1>4, <1>5, <1>6, <1>7 DEF IInv

\* What a write leaves is a file, and with it the workspace is one.
LEMMA WrittenIsAFile ==
    ASSUME Types, NEW p \in Paths
    PROVE  /\ \A text \in Texts : [disk EXCEPT ![p] = Written(text)] \in Disks
           /\ [disk EXCEPT ![p] = NoFile] \in Disks
           /\ \A q \in Paths : disk[p] # NoFile =>
                 [disk EXCEPT ![p] = NoFile, ![q] = disk[p]] \in Disks
<1>1. \A text \in Texts : Written(text) \in File /\ Written(text).text # "none"
  BY TextsAssumption DEF Written, File, Texts, Types
<1>2. NoFile \in File /\ NoFile.text = "none"
  BY DEF NoFile, File
<1>3. /\ disk \in [Paths -> File]
      /\ \A q \in Paths : disk[q].text = "none" => disk[q] = NoFile
  BY DEF Types, Disks
<1>4. ASSUME NEW text \in Texts  PROVE [disk EXCEPT ![p] = Written(text)] \in Disks
  <2>1. Written(text) \in File /\ Written(text).text # "none"
    BY <1>1
  <2> HIDE DEF File, Disks
  <2>2. QED
    BY <1>3, <2>1 DEF Disks
<1>5. [disk EXCEPT ![p] = NoFile] \in Disks
  BY <1>2, <1>3 DEF Disks
<1>6. ASSUME NEW q \in Paths, disk[p] # NoFile
      PROVE  [disk EXCEPT ![p] = NoFile, ![q] = disk[p]] \in Disks
  BY <1>2, <1>3 DEF Disks
<1>7. QED
  BY <1>4, <1>5, <1>6

\* The edit of an editor and the write of a command.
LEMMA ActionWrites ==
    ASSUME IInv, NEW a \in Actions, Edit(a) \/ Command(a)
    PROVE  IInv'
<1>1. /\ Types /\ act[a] \in Records /\ act[a].at = "running"
      /\ UNCHANGED <<began, baselines, ambiguous, outcome>> /\ SavesNameAFile'
  BY DEF Edit, Command, IInv, Types, SavesNameAFile
<1>2. CASE Edit(a)
  <2>1. act[a].path \in Paths
    BY <1>2 DEF Edit, IInv, EditorsNameAFile
  <2>2. PICK text \in Texts : WriteAs(a, [disk EXCEPT ![act[a].path] = Written(text)])
    BY <1>2 DEF Edit
  <2>3. [disk EXCEPT ![act[a].path] = Written(text)] \in Disks
    BY <1>1, <2>1, WrittenIsAFile
  <2>4. QED
    BY <1>1, <2>2, <2>3, WriteStep
<1>3. CASE Command(a)
  <2>1. \E d \in Disks : WriteAs(a, d)
    <3>1. CASE \E p \in Paths, text \in Texts : WriteAs(a, [disk EXCEPT ![p] = Written(text)])
      BY <1>1, <3>1, WrittenIsAFile
    <3>2. CASE \E p \in Paths : WriteAs(a, [disk EXCEPT ![p] = NoFile])
      BY <1>1, <3>2, WrittenIsAFile
    <3>3. CASE \E p, q \in Paths :
                  /\ disk[p] # NoFile /\ disk[q] = NoFile
                  /\ WriteAs(a, [disk EXCEPT ![p] = NoFile, ![q] = disk[p]])
      BY <1>1, <3>3, WrittenIsAFile
    <3>4. QED
      BY <1>3, <3>1, <3>2, <3>3 DEF Command
  <2>2. PICK d \in Disks : WriteAs(a, d)
    BY <2>1
  <2>3. QED
    BY <1>1, <2>2, WriteStep
<1>4. QED
  BY <1>2, <1>3

\* An observation: what the scan found since the baseline of an action that ran alone was
\* written by it or by somebody the bridge does not follow.
LEMMA ObserveStep ==
    ASSUME IInv, NEW a \in Actions, NEW failed \in BOOLEAN, Observe(a, failed)
    PROVE  IInv'
<1> DEFINE affected == IF a \in DOMAIN baselines /\ a \notin ambiguous
                       THEN {c.path : c \in Compare(disk, baselines[a]).files} ELSE {}
           validated == IF act[a].tool = "validate" /\ ~ failed THEN Validated ELSE {}
           saw == IF act[a].tool = "validate" THEN disk ELSE NoOutcome.saw
           record == [failed |-> failed, affected |-> affected, validated |-> validated,
                      saw |-> saw]
<1>1. /\ Types /\ act[a] \in Records /\ act[a].at = "running"
      /\ act[a].tool = "editor" => failed \/ act[a].path \in act[a].wrote
      /\ UNCHANGED <<disk, writes, began, save>>
  BY DEF Observe, IInv, Types
<1>2. /\ act' = [act EXCEPT ![a].at = "observed"]
      /\ baselines' = [b \in DOMAIN baselines \ {a} |-> baselines[b]]
      /\ ambiguous' = ambiguous \ {a}
      /\ outcome' = [outcome EXCEPT ![a] = record]
  BY DEF Observe
<1>3. affected \subseteq act[a].wrote \cup act[a].foreign
  <2>1. SUFFICES ASSUME a \in DOMAIN baselines, a \notin ambiguous,
                        NEW c \in Compare(disk, baselines[a]).files
                 PROVE  c.path \in act[a].wrote \cup act[a].foreign
    OBVIOUS
  <2>2. PICK before \in Disks :
           /\ baselines[a] = Capture(before)
           /\ \A p \in Paths : disk[p] # before[p] => p \in act[a].wrote \cup act[a].foreign
    BY <1>1, <2>1 DEF IInv, BaselinesAreWatched, Watched
  <2>3. disk \in Disks
    BY <1>1 DEF Types
  <2>4. c.path \in Paths /\ Real(c, before, disk)
    BY <2>1, <2>2, <2>3, CompareIsReal
  <2>5. disk[c.path] # before[c.path]
    BY <2>4 DEF Real
  <2>6. QED
    BY <2>2, <2>4, <2>5
<1>4. \A v \in validated : v.digest = {Digest(saw[v.path])}
  <2>1. SUFFICES ASSUME act[a].tool = "validate", NEW v \in Validated
                 PROVE  v.digest = {Digest(disk[v.path])}
    OBVIOUS
  <2>2. PICK c \in Compare(disk, Capture(began)).files :
           c.after # {} /\ v = [path |-> c.path, digest |-> c.after]
    BY <2>1 DEF Validated
  <2>3. disk \in Disks /\ began \in Disks
    BY <1>1 DEF Types
  <2>4. c.after \in {{}, {Digest(disk[c.path])}}
    BY <2>3, CompareIsReal
  <2>5. QED
    BY <2>2, <2>4
<1>5. validated # {} => act[a].tool = "validate"
  OBVIOUS
<1> HIDE DEF affected, validated, saw
<1>6. /\ act' \in [Actions -> Records]
      /\ act'[a].at = "observed" /\ act'[a].tool = act[a].tool /\ act'[a].path = act[a].path
      /\ act'[a].wrote = act[a].wrote /\ act'[a].foreign = act[a].foreign
      /\ \A b \in Actions \ {a} : act'[b] = act[b]
  BY <1>1, <1>2 DEF Types, Records
<1>7. /\ outcome'[a].failed = failed /\ outcome'[a].affected = affected
      /\ outcome'[a].validated = validated /\ outcome'[a].saw = saw
      /\ \A b \in Actions \ {a} : outcome'[b] = outcome[b]
  BY <1>1, <1>2 DEF Types
<1>8. Types'
  BY <1>1, <1>2, <1>6 DEF Types
<1>9. Founded(a)'
  BY <1>1, <1>3, <1>4, <1>5, <1>6, <1>7 DEF Founded
<1>10. \A b \in Actions : Founded(b)'
  BY <1>6, <1>7, <1>9, FoundedStays DEF IInv
<1>11. BaselinesAreKept' /\ OverlapsAreAmbiguous'
  BY <1>1, <1>2, <1>6 DEF IInv, BaselinesAreKept, OverlapsAreAmbiguous
<1>12. BaselinesAreWatched'
  <2>1. SUFFICES ASSUME NEW b \in DOMAIN baselines' \ ambiguous', act'[b].at = "running"
                 PROVE  Watched(b)'
    BY DEF BaselinesAreWatched
  <2>2. /\ b # a /\ b \in DOMAIN baselines \ ambiguous /\ b \in Actions
        /\ baselines'[b] = baselines[b]
    BY <1>2, <2>1 DEF IInv, BaselinesAreKept
  <2>3. Watched(b)
    BY <1>6, <2>1, <2>2 DEF IInv, BaselinesAreWatched
  <2>4. act'[b] = act[b] /\ disk' = disk
    BY <1>1, <1>6, <2>2
  <2>5. QED
    BY <2>2, <2>3, <2>4 DEF Watched
<1>13. EditorsNameAFile' /\ SavesNameAFile'
  BY <1>1, <1>6 DEF IInv, EditorsNameAFile, SavesNameAFile
<1>14. QED
  BY <1>8, <1>10, <1>11, <1>12, <1>13 DEF IInv

\* An action that gets no observation.
LEMMA VanishStep ==
    ASSUME IInv, NEW a \in Actions, Vanish(a)
    PROVE  IInv'
<1>1. /\ Types /\ act[a] \in Records /\ act[a].at = "running"
      /\ act' = [act EXCEPT ![a].at = "vanished"]
      /\ UNCHANGED <<disk, writes, began, baselines, ambiguous, outcome, save>>
  BY DEF Vanish, IInv, Types
<1>2. /\ act' \in [Actions -> Records]
      /\ act'[a].at = "vanished" /\ act'[a].tool = act[a].tool /\ act'[a].path = act[a].path
      /\ act'[a].wrote = act[a].wrote /\ act'[a].foreign = act[a].foreign
      /\ \A b \in Actions \ {a} : act'[b] = act[b]
  BY <1>1 DEF Types, Records
<1>3. Types'
  BY <1>1, <1>2 DEF Types
<1>4. \A b \in Actions : Founded(b)'
  BY <1>1, <1>2, FoundedStays DEF IInv
<1>5. BaselinesAreKept' /\ OverlapsAreAmbiguous' /\ EditorsNameAFile'
  BY <1>1, <1>2 DEF IInv, BaselinesAreKept, OverlapsAreAmbiguous, EditorsNameAFile
<1>6. BaselinesAreWatched'
  BY <1>1, <1>2 DEF IInv, BaselinesAreKept, BaselinesAreWatched, Watched
<1>7. SavesNameAFile'
  BY <1>1 DEF IInv, SavesNameAFile
<1>8. QED
  BY <1>3, <1>4, <1>5, <1>6, <1>7 DEF IInv

\* A step that leaves the workspace and the bridge alone.
LEMMA ElsewhereStep ==
    ASSUME IInv, UNCHANGED <<disk, writes, began, act, baselines, ambiguous, outcome>>,
           SavesNameAFile'
    PROVE  IInv'
<1>1. Types' /\ BaselinesAreKept' /\ OverlapsAreAmbiguous' /\ EditorsNameAFile'
  BY DEF IInv, Types, BaselinesAreKept, OverlapsAreAmbiguous, EditorsNameAFile
<1>2. BaselinesAreWatched'
  BY DEF IInv, BaselinesAreWatched, Watched
<1>3. \A b \in Actions : Founded(b)'
  BY DEF IInv, Founded
<1>4. QED
  BY <1>1, <1>2, <1>3 DEF IInv

\* The user's editor saves what it holds.
LEMMA SaveStep ==
    ASSUME IInv, NEW text \in Small, Save(text)
    PROVE  IInv'
<1>1. SavesNameAFile'
  BY DEF Save, SavesNameAFile, NoSave
<1>2. CASE disk[save.path] \in {NoFile, Written(text)}
  BY <1>1, <1>2, ElsewhereStep DEF Save
<1>3. CASE disk[save.path] \notin {NoFile, Written(text)}
  <2>1. /\ WriteAs("user", [disk EXCEPT ![save.path] = Written(text)])
        /\ UNCHANGED <<began, baselines, ambiguous, outcome>> /\ save.at = "checked"
    BY <1>3 DEF Save
  <2>2. save.path \in Paths /\ Types /\ text \in Texts
    BY <2>1 DEF IInv, SavesNameAFile, Texts
  <2>3. [disk EXCEPT ![save.path] = Written(text)] \in Disks
    BY <2>2, WrittenIsAFile
  <2>4. QED
    BY <1>1, <2>1, <2>3, ActionsAssumption, WriteStep
<1>4. QED
  BY <1>2, <1>3

\* The user's editor opens a file, and checks it before it saves.
LEMMA LoadStep ==
    ASSUME IInv, (\E p \in Paths : Load(p)) \/ CheckSave
    PROVE  IInv'
<1>1. UNCHANGED <<disk, writes, began, act, baselines, ambiguous, outcome>>
  BY DEF Load, CheckSave
<1>2. SavesNameAFile'
  <2>1. CASE \E p \in Paths : Load(p)
    BY <2>1 DEF Load, SavesNameAFile, Texts
  <2>2. CASE CheckSave
    BY <2>2 DEF CheckSave, SavesNameAFile, IInv, NoSave
  <2>3. QED
    BY <2>1, <2>2
<1>3. QED
  BY <1>1, <1>2, ElsewhereStep

\* Every step keeps the invariant.
LEMMA NextInv == IInv /\ [Next]_vars => IInv'
<1> SUFFICES ASSUME IInv, [Next]_vars  PROVE IInv'
  OBVIOUS
<1>1. ASSUME NEW a \in Actions, Propose(a)  PROVE IInv'
  <2>1. CASE \E path \in Paths : Start(a, "editor", path)
    BY <2>1, StartStep DEF Tools
  <2>2. CASE \E tool \in Tools \ {"editor"} : Start(a, tool, NoPath)
    BY <2>2, StartStep
  <2>3. QED
    BY <1>1, <2>1, <2>2 DEF Propose
<1>2. ASSUME NEW a \in Actions, Edit(a) \/ Command(a)  PROVE IInv'
  BY <1>2, ActionWrites
<1>3. ASSUME NEW a \in Actions, Vanish(a)  PROVE IInv'
  BY <1>3, VanishStep
<1>4. ASSUME NEW a \in Actions, NEW failed \in BOOLEAN, Observe(a, failed)  PROVE IInv'
  BY <1>4, ObserveStep
<1>5. ASSUME (\E p \in Paths : Load(p)) \/ CheckSave  PROVE IInv'
  BY <1>5, LoadStep
<1>6. ASSUME NEW text \in Small, Save(text)  PROVE IInv'
  BY <1>6, SaveStep
<1>7. CASE UNCHANGED vars
  <2>1. SavesNameAFile'
    BY <1>7 DEF IInv, SavesNameAFile, vars
  <2>2. QED
    BY <1>7, <2>1, ElsewhereStep DEF vars
<1>8. QED
  BY <1>1, <1>2, <1>3, <1>4, <1>5, <1>6, <1>7 DEF Next

---------------------------------------------------------------------------
(* The theorems *)

\* The inductive invariant holds in every reachable state.
THEOREM Invariance == Spec => []IInv
<1>1. QED
  BY InitInv, NextInv, PTL DEF Spec

\* The change set claims nothing that is not so, and with no scan cut short it leaves
\* nothing out that it can tell: compare_baseline in ide/changes.py.
THEOREM RealChanges == Spec => []ChangesAreReal
<1>1. IInv => ChangesAreReal
  <2> SUFFICES ASSUME IInv  PROVE ChangesAreReal
    OBVIOUS
  <2>1. disk \in Disks /\ began \in Disks
    BY DEF IInv, Types
  <2>2. ASSUME NEW c \in ChangeSet.files  PROVE Real(c, began, disk)
    BY <2>1, <2>2, CompareIsReal DEF ChangeSet
  <2>3. ASSUME ~ ChangeSet.truncated, NEW p \in Paths, Tellable(began[p], disk[p])
        PROVE  \E c \in ChangeSet.files : p = c.path \/ p = c.previous
    BY <2>1, <2>3, CompareIsWhole DEF ChangeSet
  <2>4. QED
    BY <2>2, <2>3 DEF ChangesAreReal, Real
<1>2. QED
  BY <1>1, Invariance, PTL

\* No action is credited with a path that neither it nor somebody the bridge does not
\* follow wrote: attribute_changes, on what the bridge recorded of overlapping actions.
THEOREM FoundedAttribution == Spec => []AttributionIsFounded
<1>1. IInv => AttributionIsFounded
  BY DEF IInv, Founded, AttributionIsFounded, Claimants
<1>2. QED
  BY <1>1, Invariance, PTL

\* A validation recorded with a change ended on the text that the file has now.
THEOREM CurrentValidation == Spec => []ValidationIsCurrent
<1>1. IInv => ValidationIsCurrent
  <2> SUFFICES ASSUME IInv, NEW c \in ChangeSet.files, NEW v \in Validations(c)
               PROVE  /\ act[v].at = "observed" /\ act[v].tool = "validate"
                      /\ outcome[v].saw[c.path].text = disk[c.path].text
    BY DEF ValidationIsCurrent
  <2>1. disk \in Disks /\ began \in Disks /\ v \in Actions
    BY DEF IInv, Types, Validations
  <2>2. /\ c.after \notin {{}, {NoDigest}}
        /\ [path |-> c.path, digest |-> c.after] \in outcome[v].validated
    BY DEF Validations
  <2>3. c.after = {Digest(disk[c.path])}
    BY <2>1, <2>2, CompareIsReal DEF ChangeSet
  <2>4. c.after = {Digest(outcome[v].saw[c.path])}
    BY <2>1, <2>2 DEF IInv, Founded
  <2>5. Digest(disk[c.path]) # NoDigest
    BY <2>2, <2>3
  <2>6. Digest(outcome[v].saw[c.path]) = Digest(disk[c.path])
    BY <2>3, <2>4
  <2>7. outcome[v].saw[c.path].text = disk[c.path].text
    BY <2>5, <2>6, DigestTells
  <2>8. QED
    BY <2>1, <2>2, <2>7 DEF IInv, Founded
<1>2. QED
  BY <1>1, Invariance, PTL
=============================================================================
