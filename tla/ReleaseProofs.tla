---- MODULE ReleaseProofs ----
(***************************************************************************)
(* The release workflows, for any history of commits and any number of     *)
(* runs.  A dispatch can only push what it has checked out and resolved,   *)
(* and a release run only publishes what it has validated: each property   *)
(* is inductive together with how far each run has come.                   *)
(***************************************************************************)
EXTENDS ReleasePipeline, TLAPS

\* A dispatch past its checkout has a commit, and past resolve-version a tag.
DispatchShape ==
    \A d \in Dispatches :
        /\ dispatch[d].at # "idle" => dispatch[d].commit \in Commits
        /\ dispatch[d].at \in {"resolved", "checked", "pushed"} => dispatch[d].tag \in Versions

\* What the steps so far of a release run have established.
ReleaseShape ==
    \A r \in Runs :
        /\ release[r].at # "idle" =>
               release[r].tag \in Versions /\ release[r].commit \in carried[release[r].tag]
        /\ release[r].at \in {"validated", "prepared"} =>
               Pyproject[release[r].commit] = release[r].tag
        /\ release[r].at = "prepared" => release[r].tag \in Notes[release[r].commit]
        /\ release[r].jobs # {} => release[r].at = "prepared"

IInv == TypeOK /\ DispatchShape /\ ReleaseShape /\ PushedTagIsOwned /\ ReleasesShowTheirNotes

LEMMA InitInv == Init => IInv
  <1> SUFFICES ASSUME Init PROVE IInv
    OBVIOUS
  <1>1. TypeOK
    <2>1. main \in Commits
      BY ReleaseAssumption DEF Init
    <2>2. tags \in [Versions -> Commits \cup {NoCommit}]
      BY DEF Init
    <2>3. dispatch \in [Dispatches -> Dispatch] /\ \A d \in Dispatches : dispatch[d].at = "idle"
      BY DEF Init, Dispatch
    <2>4. release \in [Runs -> Release]
      BY DEF Init, Release
    <2>5. entry \in [Hosts -> [Versions -> Commits \cup {NoCommit}]]
      BY DEF Init
    <2>6. touched \subseteq Versions /\ carried \in [Versions -> SUBSET Commits]
      BY DEF Init
    <2> QED
      BY <2>1, <2>2, <2>3, <2>4, <2>5, <2>6 DEF TypeOK
  <1>2. DispatchShape /\ PushedTagIsOwned
    BY DEF Init, DispatchShape, PushedTagIsOwned
  <1>3. ReleaseShape
    BY DEF Init, ReleaseShape
  <1>4. ReleasesShowTheirNotes
    BY DEF Init, ReleasesShowTheirNotes
  <1> QED
    BY <1>1, <1>2, <1>3, <1>4 DEF IInv

----
(* Dispatches *)

\* A dispatch that moves on without pushing changes nothing that others rely on.
LEMMA DispatchMoves ==
    ASSUME IInv, NEW d \in Dispatches, NEW e \in Dispatch,
           dispatch' = [dispatch EXCEPT ![d] = e],
           UNCHANGED <<main, tags, release, entry, touched, carried>>,
           e.at # "pushed",
           e.at # "idle" => e.commit \in Commits,
           e.at \in {"resolved", "checked"} => e.tag \in Versions
    PROVE  IInv'
  <1>1. TypeOK'
    <2>1. e.at \in {"resolved", "checked", "pushed"} => e.tag # NoVersion
      BY ReleaseAssumption
    <2> QED
      BY <2>1 DEF IInv, TypeOK
  <1>2. DispatchShape'
    BY DEF IInv, TypeOK, DispatchShape
  <1>3. ReleaseShape'
    BY DEF IInv, ReleaseShape
  <1>4. PushedTagIsOwned'
    BY DEF IInv, TypeOK, PushedTagIsOwned
  <1>5. ReleasesShowTheirNotes'
    BY DEF IInv, ReleasesShowTheirNotes
  <1> QED
    BY <1>1, <1>2, <1>3, <1>4, <1>5 DEF IInv

LEMMA BecomesInv ==
    ASSUME IInv, NEW d \in Dispatches, NEW at \in {"checked", "failed"}, Becomes(d, at),
           dispatch[d].at \in {"checkout", "resolved", "checked"},
           at = "checked" => dispatch[d].at = "resolved"
    PROVE  IInv'
  <1> DEFINE e == [dispatch[d] EXCEPT !.at = at]
  <1>1. dispatch[d] \in Dispatch
    BY DEF IInv, TypeOK
  <1>2. /\ e \in Dispatch /\ e.at = at /\ e.commit = dispatch[d].commit /\ e.tag = dispatch[d].tag
        /\ dispatch' = [dispatch EXCEPT ![d] = e]
    BY <1>1 DEF Becomes, Dispatch
  <1>3. e.commit \in Commits /\ (e.at = "checked" => e.tag \in Versions)
    BY <1>2 DEF IInv, DispatchShape
  <1> QED
    BY <1>2, <1>3, DispatchMoves DEF Becomes

LEMMA CheckoutInv ==
    ASSUME IInv, NEW d \in Dispatches, Checkout(d)
    PROVE  IInv'
  <1> DEFINE e == [at |-> "checkout", commit |-> main, tag |-> NoVersion, local |-> Existing]
  <1>1. e \in Dispatch /\ e.commit \in Commits
    BY DEF IInv, TypeOK, Dispatch, Existing
  <1> QED
    BY <1>1, DispatchMoves DEF Checkout

LEMMA ResolveInv ==
    ASSUME IInv, NEW d \in Dispatches, NEW input \in Versions \cup {NoVersion},
           ResolveVersion(d, input)
    PROVE  IInv'
  <1>1. CASE ~resolve_version(dispatch[d].commit, input)
    BY <1>1, BecomesInv DEF ResolveVersion
  <1>2. CASE resolve_version(dispatch[d].commit, input)
    <2> DEFINE tag == OutputTag(dispatch[d].commit, input)
               e == [dispatch[d] EXCEPT !.at = "resolved", !.tag = tag]
    <2>1. dispatch[d] \in Dispatch /\ dispatch[d].commit \in Commits
      BY <1>2 DEF IInv, TypeOK, DispatchShape, ResolveVersion
    <2>2. tag \in Versions
      BY <1>2, <2>1, ReleaseAssumption DEF resolve_version, OutputTag
    <2>3. /\ e \in Dispatch /\ e.at = "resolved" /\ e.commit = dispatch[d].commit /\ e.tag = tag
          /\ dispatch' = [dispatch EXCEPT ![d] = e]
          /\ UNCHANGED <<main, tags, release, entry, touched, carried>>
      BY <1>2, <2>1, <2>2 DEF ResolveVersion, Dispatch
    <2> QED
      BY <2>1, <2>2, <2>3, DispatchMoves
  <1> QED
    BY <1>1, <1>2

LEMMA EnsureInv ==
    ASSUME IInv, NEW d \in Dispatches, NEW reachable \in BOOLEAN, EnsureNoTag(d, reachable)
    PROVE  IInv'
  BY BecomesInv DEF EnsureNoTag

----
(* Tags *)

\* A tag that is set is carried, and the run it may start knows nothing else yet.
LEMMA TagSetInv ==
    ASSUME IInv, NEW t \in Versions, NEW commit \in Commits,
           TagSet(t, commit), Triggers(t, commit) \/ UNCHANGED release, UNCHANGED entry
    PROVE  /\ ReleaseShape' /\ ReleasesShowTheirNotes'
           /\ tags' \in [Versions -> Commits \cup {NoCommit}]
           /\ carried' \in [Versions -> SUBSET Commits]
           /\ release' \in [Runs -> Release]
  <1>1. /\ tags' = [tags EXCEPT ![t] = commit]
        /\ carried' = [carried EXCEPT ![t] = @ \cup {commit}]
    BY DEF TagSet
  <1>2. /\ tags \in [Versions -> Commits \cup {NoCommit}]
        /\ carried \in [Versions -> SUBSET Commits]
        /\ release \in [Runs -> Release]
    BY DEF IInv, TypeOK
  <1>3. /\ commit \in carried'[t]
        /\ \A u \in Versions : carried[u] \subseteq carried'[u]
    BY <1>1, <1>2
  <1>4. tags' \in [Versions -> Commits \cup {NoCommit}] /\ carried' \in [Versions -> SUBSET Commits]
    BY <1>1, <1>2
  <1>5. ReleasesShowTheirNotes'
    BY <1>3 DEF IInv, ReleasesShowTheirNotes
  <1>6. CASE UNCHANGED release
    BY <1>2, <1>3, <1>4, <1>5, <1>6 DEF IInv, ReleaseShape
  <1>7. CASE Triggers(t, commit)
    <2>1. PICK r \in Runs :
              /\ release[r].at = "idle"
              /\ release' = [release EXCEPT ![r] =
                     [at |-> "checkout", commit |-> commit, tag |-> t, jobs |-> {}]]
      BY <1>7 DEF Triggers
    <2>2. [at |-> "checkout", commit |-> commit, tag |-> t, jobs |-> {}] \in Release
      BY DEF Release
    <2>3. release' \in [Runs -> Release]
      BY <1>2, <2>1, <2>2
    <2>4. ReleaseShape'
      BY <1>2, <1>3, <2>1 DEF IInv, ReleaseShape
    <2> QED
      BY <1>4, <1>5, <2>3, <2>4
  <1> QED
    BY <1>6, <1>7

LEMMA PushInv ==
    ASSUME IInv, NEW d \in Dispatches, PushTag(d)
    PROVE  IInv'
  <1>1. CASE ~PushAccepted(dispatch[d].tag)
    BY <1>1, BecomesInv DEF PushTag
  <1>2. CASE PushAccepted(dispatch[d].tag)
    <2> DEFINE t == dispatch[d].tag
               commit == dispatch[d].commit
    <2>1. /\ dispatch[d].at = "checked" /\ tags[t] = NoCommit
          /\ dispatch' = [dispatch EXCEPT ![d].at = "pushed"]
          /\ TagSet(t, commit) /\ (Triggers(t, commit) \/ UNCHANGED release)
          /\ UNCHANGED <<main, entry, touched>>
      BY <1>2 DEF PushTag, PushAccepted
    <2>2. t \in Versions /\ commit \in Commits /\ dispatch \in [Dispatches -> Dispatch]
      BY <2>1 DEF IInv, TypeOK, DispatchShape
    <2>3. /\ ReleaseShape' /\ ReleasesShowTheirNotes'
          /\ tags' \in [Versions -> Commits \cup {NoCommit}]
          /\ carried' \in [Versions -> SUBSET Commits]
          /\ release' \in [Runs -> Release]
      BY <2>1, <2>2, TagSetInv
    <2>4. /\ dispatch'[d].at = "pushed" /\ dispatch'[d].tag = t /\ dispatch'[d].commit = commit
          /\ \A e \in Dispatches \ {d} : dispatch'[e] = dispatch[e]
          /\ dispatch' \in [Dispatches -> Dispatch]
      BY <2>1, <2>2 DEF Dispatch
    <2>5. t # NoVersion
      BY <2>2, ReleaseAssumption
    <2>6. TypeOK'
      BY <2>1, <2>3, <2>4, <2>5 DEF IInv, TypeOK
    <2>7. DispatchShape'
      BY <2>2, <2>4 DEF IInv, DispatchShape
    <2>8. tags'[t] = commit /\ \A u \in Versions \ {t} : tags'[u] = tags[u]
      BY <2>1, <2>2 DEF TagSet, IInv, TypeOK
    <2>9. \A e \in Dispatches \ {d} : dispatch[e].at = "pushed" /\ dispatch[e].tag = t => t \in touched
      BY <2>1, ReleaseAssumption DEF IInv, PushedTagIsOwned, DispatchShape
    <2>10. PushedTagIsOwned'
      <3> SUFFICES ASSUME NEW e \in Dispatches, dispatch'[e].at = "pushed",
                          dispatch'[e].tag \notin touched
                   PROVE  /\ tags'[dispatch'[e].tag] = dispatch'[e].commit
                          /\ \A f \in Dispatches \ {e} :
                                 dispatch'[f].at = "pushed" => dispatch'[f].tag # dispatch'[e].tag
        BY <2>1 DEF PushedTagIsOwned
      <3>1. CASE e = d
        BY <3>1, <2>4, <2>8, <2>9
      <3>2. CASE e # d
        <4>1. dispatch[e].at = "pushed" /\ dispatch[e].tag \in Versions \ {t}
          BY <3>2, <2>4, <2>9 DEF IInv, DispatchShape
        <4>2. /\ tags[dispatch[e].tag] = dispatch[e].commit
              /\ \A f \in Dispatches \ {e} :
                     dispatch[f].at = "pushed" => dispatch[f].tag # dispatch[e].tag
          BY <3>2, <2>4, <4>1 DEF IInv, PushedTagIsOwned
        <4> QED
          BY <3>2, <2>4, <2>8, <4>1, <4>2
      <3> QED
        BY <3>1, <3>2
    <2> QED
      BY <2>3, <2>6, <2>7, <2>10 DEF IInv
  <1> QED
    BY <1>1, <1>2

LEMMA PersonTagsInv ==
    ASSUME IInv, NEW t \in Versions, NEW commit \in Commits, PersonTags(t, commit)
    PROVE  IInv'
  <1>1. /\ TagSet(t, commit) /\ Triggers(t, commit)
        /\ touched' = touched \cup {t} /\ UNCHANGED <<main, dispatch, entry>>
    BY DEF PersonTags
  <1>2. /\ ReleaseShape' /\ ReleasesShowTheirNotes'
        /\ tags' \in [Versions -> Commits \cup {NoCommit}]
        /\ carried' \in [Versions -> SUBSET Commits]
        /\ release' \in [Runs -> Release]
    BY <1>1, TagSetInv
  <1>3. TypeOK' /\ DispatchShape'
    BY <1>1, <1>2 DEF IInv, TypeOK, DispatchShape
  <1>4. \A u \in Versions \ {t} : tags'[u] = tags[u]
    BY <1>1 DEF TagSet, IInv, TypeOK
  <1>5. PushedTagIsOwned'
    BY <1>1, <1>4 DEF IInv, PushedTagIsOwned, DispatchShape
  <1> QED
    BY <1>2, <1>3, <1>5 DEF IInv

LEMMA PersonDeletesInv ==
    ASSUME IInv, NEW t \in Versions, PersonDeletes(t)
    PROVE  IInv'
  <1>1. /\ tags' = [tags EXCEPT ![t] = NoCommit] /\ touched' = touched \cup {t}
        /\ UNCHANGED <<main, dispatch, release, entry, carried>>
    BY DEF PersonDeletes
  <1>2. TypeOK' /\ DispatchShape' /\ ReleaseShape' /\ ReleasesShowTheirNotes'
    BY <1>1 DEF IInv, TypeOK, DispatchShape, ReleaseShape, ReleasesShowTheirNotes
  <1>3. PushedTagIsOwned'
    BY <1>1 DEF IInv, TypeOK, PushedTagIsOwned, DispatchShape
  <1> QED
    BY <1>2, <1>3 DEF IInv

----
(* Releases *)

LEMMA PrepareInv ==
    ASSUME IInv, NEW r \in Runs, NEW jobs \in SUBSET Hosts,
           NEW at \in {"validated", "prepared", "failed"}, Prepare(r, at, jobs),
           release[r].at # "idle",
           at \in {"validated", "prepared"} => Pyproject[release[r].commit] = release[r].tag,
           at = "prepared" => release[r].tag \in Notes[release[r].commit],
           jobs # {} => at = "prepared"
    PROVE  IInv'
  <1>1. /\ release' = [release EXCEPT ![r].at = at, ![r].jobs = jobs]
        /\ UNCHANGED <<main, tags, dispatch, entry, touched, carried>>
    BY DEF Prepare
  <1>2. release \in [Runs -> Release]
    BY DEF IInv, TypeOK
  <1>3. /\ release'[r].at = at /\ release'[r].jobs = jobs
        /\ release'[r].commit = release[r].commit /\ release'[r].tag = release[r].tag
        /\ \A s \in Runs \ {r} : release'[s] = release[s]
        /\ release' \in [Runs -> Release]
    BY <1>1, <1>2 DEF Release
  <1>4. TypeOK'
    BY <1>1, <1>3 DEF IInv, TypeOK
  <1>5. ReleaseShape'
    BY <1>1, <1>3 DEF IInv, ReleaseShape
  <1>6. DispatchShape' /\ PushedTagIsOwned' /\ ReleasesShowTheirNotes'
    BY <1>1 DEF IInv, DispatchShape, PushedTagIsOwned, ReleasesShowTheirNotes
  <1> QED
    BY <1>4, <1>5, <1>6 DEF IInv

\* The entry written is the one of a prepared run.
LEMMA PublishesInv ==
    ASSUME IInv, NEW r \in Runs, NEW host \in Hosts, Publishes(r, host)
    PROVE  /\ ReleaseShape' /\ ReleasesShowTheirNotes'
           /\ release' \in [Runs -> Release]
           /\ entry' \in [Hosts -> [Versions -> Commits \cup {NoCommit}]]
           /\ release[r].tag \in Versions
  <1>1. /\ host \in release[r].jobs
        /\ release' = [release EXCEPT ![r].jobs = @ \ {host}]
        /\ entry' = [entry EXCEPT ![host][release[r].tag] = release[r].commit]
        /\ UNCHANGED <<main, dispatch, touched, carried>>
    BY DEF Publishes
  <1>2. /\ release \in [Runs -> Release]
        /\ entry \in [Hosts -> [Versions -> Commits \cup {NoCommit}]]
        /\ carried \in [Versions -> SUBSET Commits]
    BY DEF IInv, TypeOK
  <1>3. release[r].at = "prepared"
    BY <1>1 DEF IInv, ReleaseShape
  <1>4. /\ release[r].tag \in Versions /\ release[r].commit \in carried[release[r].tag]
        /\ Pyproject[release[r].commit] = release[r].tag
        /\ release[r].tag \in Notes[release[r].commit]
    BY <1>3 DEF IInv, ReleaseShape
  <1>5. release[r].commit \in Commits
    BY <1>2, <1>4
  <1>6. /\ release'[r].at = release[r].at /\ release'[r].jobs \subseteq release[r].jobs
        /\ release'[r].commit = release[r].commit /\ release'[r].tag = release[r].tag
        /\ \A s \in Runs \ {r} : release'[s] = release[s]
        /\ release' \in [Runs -> Release]
    BY <1>1, <1>2 DEF Release
  <1>7. ReleaseShape'
    BY <1>1, <1>3, <1>6 DEF IInv, ReleaseShape
  <1>8. entry' \in [Hosts -> [Versions -> Commits \cup {NoCommit}]]
    BY <1>1, <1>2, <1>4, <1>5
  <1>9. \A h \in Hosts, t \in Versions :
            \/ entry'[h][t] = entry[h][t]
            \/ t = release[r].tag /\ entry'[h][t] = release[r].commit
    BY <1>1, <1>2, <1>4
  <1>10. ReleasesShowTheirNotes'
    BY <1>1, <1>4, <1>9 DEF IInv, ReleasesShowTheirNotes
  <1> QED
    BY <1>4, <1>6, <1>7, <1>8, <1>10

LEMMA GithubInv ==
    ASSUME IInv, NEW r \in Runs, PublishGithub(r)
    PROVE  IInv'
  <1>1. /\ Publishes(r, "github")
        /\ tags' = IF tags[release[r].tag] # NoCommit THEN tags
                   ELSE [tags EXCEPT ![release[r].tag] = main]
        /\ UNCHANGED <<main, dispatch, touched, carried>>
    BY DEF PublishGithub, Publishes
  <1>2. /\ ReleaseShape' /\ ReleasesShowTheirNotes'
        /\ release' \in [Runs -> Release]
        /\ entry' \in [Hosts -> [Versions -> Commits \cup {NoCommit}]]
        /\ release[r].tag \in Versions
    BY <1>1, PublishesInv DEF Hosts
  <1>3. TypeOK' /\ DispatchShape'
    BY <1>1, <1>2 DEF IInv, TypeOK, DispatchShape
  <1>4. \A t \in Versions : tags[t] # NoCommit => tags'[t] = tags[t]
    BY <1>1, <1>2 DEF IInv, TypeOK
  <1>5. \A d \in Dispatches : dispatch[d].at = "pushed" /\ dispatch[d].tag \notin touched =>
            tags[dispatch[d].tag] \in Commits /\ dispatch[d].tag \in Versions
    BY DEF IInv, PushedTagIsOwned, DispatchShape
  <1>6. PushedTagIsOwned'
    BY <1>1, <1>4, <1>5, ReleaseAssumption DEF IInv, PushedTagIsOwned
  <1> QED
    BY <1>2, <1>3, <1>6 DEF IInv

LEMMA GitlabInv ==
    ASSUME IInv, NEW r \in Runs, PublishGitlab(r)
    PROVE  IInv'
  <1>1. Publishes(r, "gitlab") /\ UNCHANGED <<tags, main, dispatch, touched, carried>>
    BY DEF PublishGitlab, Publishes
  <1>2. /\ ReleaseShape' /\ ReleasesShowTheirNotes'
        /\ release' \in [Runs -> Release]
        /\ entry' \in [Hosts -> [Versions -> Commits \cup {NoCommit}]]
    BY <1>1, PublishesInv DEF Hosts
  <1>3. TypeOK' /\ DispatchShape' /\ PushedTagIsOwned'
    BY <1>1, <1>2 DEF IInv, TypeOK, DispatchShape, PushedTagIsOwned
  <1> QED
    BY <1>2, <1>3 DEF IInv

LEMMA RunInv ==
    ASSUME IInv, NEW r \in Runs,
           \/ ValidateTag(r) \/ WriteNotes(r)
           \/ \E host \in Hosts : JobFails(r, host) \/ Rerun(r, host)
    PROVE  IInv'
  <1>1. CASE ValidateTag(r)
    BY <1>1, PrepareInv DEF ValidateTag, validate_tag
  <1>2. CASE WriteNotes(r)
    BY <1>2, PrepareInv DEF WriteNotes, write_release_notes, IInv, ReleaseShape
  <1>3. ASSUME NEW host \in Hosts, JobFails(r, host) \/ Rerun(r, host)
        PROVE  IInv'
    <2>1. release[r].jobs \subseteq Hosts
      BY DEF IInv, TypeOK, Release
    <2>2. release[r].at = "prepared"
      BY <1>3 DEF JobFails, Rerun, IInv, ReleaseShape
    <2>3. /\ Pyproject[release[r].commit] = release[r].tag
          /\ release[r].tag \in Notes[release[r].commit]
      BY <2>2 DEF IInv, ReleaseShape
    <2> QED
      BY <1>3, <2>1, <2>2, <2>3, PrepareInv DEF JobFails, Rerun
  <1> QED
    BY <1>1, <1>2, <1>3

LEMMA CommitInv ==
    ASSUME IInv, Commit
    PROVE  IInv'
  BY DEF Commit, IInv, TypeOK, DispatchShape, ReleaseShape, PushedTagIsOwned,
         ReleasesShowTheirNotes

LEMMA Inductive == Spec => []IInv
  <1>1. IInv /\ [Next]_vars => IInv'
    <2> SUFFICES ASSUME IInv, [Next]_vars PROVE IInv'
      OBVIOUS
    <2>1. CASE \E d \in Dispatches :
                   \/ Checkout(d) \/ PushTag(d)
                   \/ \E input \in Versions \cup {NoVersion} : ResolveVersion(d, input)
                   \/ \E reachable \in BOOLEAN : EnsureNoTag(d, reachable)
      BY <2>1, CheckoutInv, PushInv, ResolveInv, EnsureInv
    <2>2. CASE \E r \in Runs :
                   \/ ValidateTag(r) \/ WriteNotes(r) \/ PublishGithub(r) \/ PublishGitlab(r)
                   \/ \E host \in Hosts : JobFails(r, host) \/ Rerun(r, host)
      BY <2>2, RunInv, GithubInv, GitlabInv
    <2>3. CASE Commit
      BY <2>3, CommitInv
    <2>4. CASE \E t \in Versions : PersonDeletes(t) \/ \E c \in Commits : PersonTags(t, c)
      BY <2>4, PersonDeletesInv, PersonTagsInv
    <2>5. CASE UNCHANGED vars
      BY <2>5 DEF vars, IInv, TypeOK, DispatchShape, ReleaseShape, PushedTagIsOwned,
                  ReleasesShowTheirNotes
    <2> QED
      BY <2>1, <2>2, <2>3, <2>4, <2>5 DEF Next
  <1> QED
    BY <1>1, InitInv, PTL DEF Spec

----
(* Theorems *)

\* However many dispatches race, and whatever else happens to tags, one that reports
\* success owns its tag until a person touches that tag.
THEOREM DispatchesOwnTheirTags == Spec => []PushedTagIsOwned
  <1>1. IInv => PushedTagIsOwned
    BY DEF IInv
  <1> QED
    BY <1>1, Inductive, PTL

\* Both hosts only ever show notes written for the version, from a commit of that
\* version that carried the tag.
THEOREM PublishedNotesBelong == Spec => []ReleasesShowTheirNotes
  <1>1. IInv => ReleasesShowTheirNotes
    BY DEF IInv
  <1> QED
    BY <1>1, Inductive, PTL

\* The state of the workflows keeps its types; a dispatch past resolve-version has a tag.
THEOREM ReleaseTypes == Spec => []TypeOK
  <1>1. IInv => TypeOK
    BY DEF IInv
  <1> QED
    BY <1>1, Inductive, PTL
====
