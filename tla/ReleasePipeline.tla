---- MODULE ReleasePipeline ----
(***************************************************************************)
(* Releases: create_release_tag.yml, dispatched by hand and maybe several  *)
(* times at once, release_on_tag.yml, started by a pushed tag, and the     *)
(* helper both call, scripts/release/release_metadata.py.                  *)
(*                                                                         *)
(* A version stands for its tag.  A commit has a version in pyproject,     *)
(* headings in the changelog, and notes under some of them.  Runs read the *)
(* commit they were started for, whatever main is by then.  People push,   *)
(* move and delete tags as they like.                                      *)
(***************************************************************************)
EXTENDS Integers

CONSTANTS Versions,
          WellFormed,   \* the versions that SEMVER_RE matches
          Commits,      \* 1 .. n, in the order main gets them
          Pyproject,    \* commit -> version
          Headings,     \* commit -> versions with a heading in CHANGELOG.md
          Notes,        \* commit -> versions with notes under their heading
          Dispatches,   \* runs of create_release_tag.yml
          Runs          \* runs of release_on_tag.yml

NoVersion == ""   \* an empty input
NoCommit == 0

ASSUME ReleaseAssumption ==
    /\ NoVersion \notin Versions
    /\ Commits \subseteq Nat \ {NoCommit} /\ 1 \in Commits
    /\ Pyproject \in [Commits -> Versions]

Hosts == {"github", "gitlab"}

VARIABLES main,      \* the last commit of main
          tags,      \* tag -> commit on origin
          dispatch,  \* run -> where it is, its commit and its tag
          release,   \* run -> where its preparation is, its commit and tag, its open jobs
          entry,     \* host -> tag -> the commit whose notes the release shows
          touched,   \* history only: tags a person pushed, moved or deleted
          carried    \* history only: tag -> commits it has been pushed with

vars == <<main, tags, dispatch, release, entry, touched, carried>>

Dispatch == [at : {"idle", "checkout", "resolved", "checked", "pushed", "failed"},
             commit : Commits \cup {NoCommit}, tag : Versions \cup {NoVersion},
             local : SUBSET Versions]
Release == [at : {"idle", "checkout", "validated", "prepared", "failed"},
            commit : Commits \cup {NoCommit}, tag : Versions \cup {NoVersion},
            jobs : SUBSET Hosts]

TypeOK ==
    /\ main \in Commits
    /\ tags \in [Versions -> Commits \cup {NoCommit}]
    /\ dispatch \in [Dispatches -> Dispatch]
    /\ \A d \in Dispatches :
           dispatch[d].at \in {"resolved", "checked", "pushed"} => dispatch[d].tag # NoVersion
    /\ release \in [Runs -> Release]
    /\ entry \in [Hosts -> [Versions -> Commits \cup {NoCommit}]]
    /\ touched \subseteq Versions
    /\ carried \in [Versions -> SUBSET Commits]

Init ==
    /\ main = 1
    /\ tags = [t \in Versions |-> NoCommit]
    /\ dispatch = [d \in Dispatches |->
           [at |-> "idle", commit |-> NoCommit, tag |-> NoVersion, local |-> {}]]
    /\ release = [r \in Runs |->
           [at |-> "idle", commit |-> NoCommit, tag |-> NoVersion, jobs |-> {}]]
    /\ entry = [h \in Hosts |-> [t \in Versions |-> NoCommit]]
    /\ touched = {} /\ carried = [t \in Versions |-> {}]

Existing == {t \in Versions : tags[t] # NoCommit}

----
(* release_metadata.py *)

Target(commit, input) == IF input = NoVersion THEN Pyproject[commit] ELSE input

resolve_version(commit, input) ==
    /\ Target(commit, input) \in WellFormed
    /\ Target(commit, input) = Pyproject[commit]
    /\ Target(commit, input) \in Headings[commit]

\* Mutant: the optional input is written out.
InputAsTag(commit, input) == input

\* The outputs `version` and `tag`.
OutputTag(commit, input) == Target(commit, input)

\* Mutant: any version the changelog knows will do.
AnyHeading(commit, tag) == tag \in WellFormed /\ tag \in Headings[commit]

validate_tag(commit, tag) ==
    /\ tag \in WellFormed
    /\ tag = Pyproject[commit]
    /\ tag \in Headings[commit]

\* A heading with nothing under it, or none at all, is a ValueError.
write_release_notes(commit, tag) == tag \in Notes[commit]

----
(* create_release_tag.yml *)

\* The commit is the one main has now; fetch-depth 0 brings the tags along.
Checkout(d) ==
    /\ dispatch[d].at = "idle"
    /\ dispatch' = [dispatch EXCEPT ![d] =
           [at |-> "checkout", commit |-> main, tag |-> NoVersion, local |-> Existing]]
    /\ UNCHANGED <<main, tags, release, entry, touched, carried>>

Becomes(d, at) ==
    /\ dispatch' = [dispatch EXCEPT ![d].at = at]
    /\ UNCHANGED <<main, tags, release, entry, touched, carried>>

ResolveVersion(d, input) ==
    /\ dispatch[d].at = "checkout"
    /\ IF resolve_version(dispatch[d].commit, input)
       THEN /\ dispatch' = [dispatch EXCEPT ![d].at = "resolved",
                                            ![d].tag = OutputTag(dispatch[d].commit, input)]
            /\ UNCHANGED <<main, tags, release, entry, touched, carried>>
       ELSE Becomes(d, "failed")

\* A failed ls-remote feeds grep nothing and counts as no such tag.
EnsureNoTag(d, reachable) ==
    /\ dispatch[d].at = "resolved"
    /\ IF dispatch[d].tag \in dispatch[d].local \cup IF reachable THEN Existing ELSE {}
       THEN Becomes(d, "failed") ELSE Becomes(d, "checked")

\* Mutant: the push is forced.
Forced(t) == TRUE

\* git refuses to push another tag object under a name that origin has.
PushAccepted(t) == tags[t] = NoCommit

\* The event of a pushed tag carries the tag and its commit.
Triggers(t, commit) ==
    \E r \in Runs :
        /\ release[r].at = "idle"
        /\ release' = [release EXCEPT ![r] =
               [at |-> "checkout", commit |-> commit, tag |-> t, jobs |-> {}]]

TagSet(t, commit) ==
    /\ tags' = [tags EXCEPT ![t] = commit]
    /\ carried' = [carried EXCEPT ![t] = @ \cup {commit}]

\* A push with the workflow's own token need not start other workflows.
PushTag(d) ==
    /\ dispatch[d].at = "checked"
    /\ IF PushAccepted(dispatch[d].tag)
       THEN /\ dispatch' = [dispatch EXCEPT ![d].at = "pushed"]
            /\ TagSet(dispatch[d].tag, dispatch[d].commit)
            /\ Triggers(dispatch[d].tag, dispatch[d].commit) \/ UNCHANGED release
            /\ UNCHANGED <<main, entry, touched>>
       ELSE Becomes(d, "failed")

----
(* release_on_tag.yml *)

Prepare(r, at, jobs) ==
    /\ release' = [release EXCEPT ![r].at = at, ![r].jobs = jobs]
    /\ UNCHANGED <<main, tags, dispatch, entry, touched, carried>>

ValidateTag(r) ==
    /\ release[r].at = "checkout"
    /\ IF validate_tag(release[r].commit, release[r].tag)
       THEN Prepare(r, "validated", {}) ELSE Prepare(r, "failed", {})

\* The notes are uploaded for the two jobs, which then run independently.
WriteNotes(r) ==
    /\ release[r].at = "validated"
    /\ IF write_release_notes(release[r].commit, release[r].tag)
       THEN Prepare(r, "prepared", Hosts) ELSE Prepare(r, "failed", {})

Publishes(r, host) ==
    /\ host \in release[r].jobs
    /\ release' = [release EXCEPT ![r].jobs = @ \ {host}]
    /\ entry' = [entry EXCEPT ![host][release[r].tag] = release[r].commit]
    /\ UNCHANGED <<main, dispatch, touched, carried>>

\* Creates or updates; a tag that is gone by now is made anew, at the head of main.
PublishGithub(r) ==
    /\ Publishes(r, "github")
    /\ tags' = IF tags[release[r].tag] # NoCommit THEN tags
               ELSE [tags EXCEPT ![release[r].tag] = main]

\* PUT for an entry that exists, POST after a 404: the entry is the run's either way.
PublishGitlab(r) == Publishes(r, "gitlab") /\ UNCHANGED tags

\* Missing settings, or an API that does not answer with 2xx.
JobFails(r, host) ==
    /\ host \in release[r].jobs
    /\ Prepare(r, "prepared", release[r].jobs \ {host})

\* A person runs a finished job again, for the same commit.
Rerun(r, host) ==
    /\ release[r].at = "prepared" /\ host \notin release[r].jobs
    /\ Prepare(r, "prepared", release[r].jobs \cup {host})

----
(* People *)

Commit ==
    /\ main + 1 \in Commits
    /\ main' = main + 1
    /\ UNCHANGED <<tags, dispatch, release, entry, touched, carried>>

PersonTags(t, commit) ==
    /\ commit <= main
    /\ TagSet(t, commit) /\ Triggers(t, commit)
    /\ touched' = touched \cup {t}
    /\ UNCHANGED <<main, dispatch, entry>>

PersonDeletes(t) ==
    /\ tags[t] # NoCommit
    /\ tags' = [tags EXCEPT ![t] = NoCommit]
    /\ touched' = touched \cup {t}
    /\ UNCHANGED <<main, dispatch, release, entry, carried>>

----
Next ==
    \/ \E d \in Dispatches :
        \/ Checkout(d) \/ PushTag(d)
        \/ \E input \in Versions \cup {NoVersion} : ResolveVersion(d, input)
        \/ \E reachable \in BOOLEAN : EnsureNoTag(d, reachable)
    \/ \E r \in Runs :
        \/ ValidateTag(r) \/ WriteNotes(r) \/ PublishGithub(r) \/ PublishGitlab(r)
        \/ \E host \in Hosts : JobFails(r, host) \/ Rerun(r, host)
    \/ Commit
    \/ \E t \in Versions : PersonDeletes(t) \/ \E c \in Commits : PersonTags(t, c)

Spec == Init /\ [][Next]_vars

----
(* Properties *)

\* A dispatch that reports success owns its tag: unless a person touched it, the tag
\* names the commit the run checked out, and no other run succeeded with it.
PushedTagIsOwned ==
    \A d \in Dispatches : dispatch[d].at = "pushed" =>
        \/ dispatch[d].tag \in touched
        \/ /\ tags[dispatch[d].tag] = dispatch[d].commit
           /\ \A e \in Dispatches \ {d} :
                  dispatch[e].at = "pushed" => dispatch[e].tag # dispatch[d].tag

\* What a release shows was written for it: notes that a commit carrying the tag at
\* some time has under that version, a version that is also the commit's own.
ReleasesShowTheirNotes ==
    \A h \in Hosts, t \in Versions : entry[h][t] # NoCommit =>
        /\ entry[h][t] \in carried[t]
        /\ Pyproject[entry[h][t]] = t
        /\ t \in Notes[entry[h][t]]
====
