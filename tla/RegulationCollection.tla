------------------------- MODULE RegulationCollection -------------------------
(***************************************************************************)
(* The programs that collect a regulation from its source: the choice of   *)
(* the document, its body and the process's cache of bodies, the files of  *)
(* its tables, the guard against a collapse of the tables, the JSON and    *)
(* the text, and the review page with its cache of live views.  "law" is   *)
(* a statute and "rule" an administrative rule of the law service, "kofia" *)
(* a regulation of the association.                                        *)
(* One program runs at a time; the source publishes whenever it likes.     *)
(***************************************************************************)
EXTENDS Naturals, Sequences, FiniteSets, TLC
CONSTANTS Name,         \* the registered name that is collected, as a sequence of words
          Siblings,     \* the other registered names of the source
          Listings,     \* sets of titles a search may find
          TableCounts,  \* tables of a publication
          Floor,        \* is_collapse: so few tables are never compared (3)
          Failures,     \* sets of files a download may fail for
          MaxReleases, MaxRuns, MaxCrashes  \* bounds; a crash takes the place of a run
VARIABLES kind, site, saved, text, quarantine, disk, body, views, op, runs, crashes, halved
vars == <<kind, site, saved, text, quarantine, disk, body, views, op, runs, crashes, halved>>

Titles == UNION Listings \cup {Name}
Idle == [at |-> "idle"]
NoRecord == [is |-> "none"]
Torn == [is |-> "torn"]
NoView == [key |-> NoRecord]

Init ==
    /\ kind \in {"law", "rule", "kofia"}
    /\ site \in {<<[rev |-> 1, tables |-> n]>> : n \in TableCounts}
    /\ saved = [t \in Titles |-> NoRecord] /\ text = [t \in Titles |-> NoRecord]
    /\ quarantine = [t \in Titles |-> NoRecord]
    /\ disk = [t \in Titles |-> {}]
    /\ body = [r \in 1..MaxReleases |-> 0]
    /\ views = NoView /\ op = Idle
    /\ runs = 0 /\ crashes = 0 /\ halved = {}

Stored == <<saved, text, quarantine, halved>>
Started == op = Idle /\ runs + crashes < MaxRuns /\ runs' = runs + 1

\* The source amends the regulation, or edits the text of the amendment in force.
Publish ==
    /\ Len(site) < MaxReleases
    /\ \E n \in TableCounts, step \in {0, 1} :
           site' = Append(site, [rev |-> site[Len(site)].rev + step, tables |-> n])
    /\ UNCHANGED <<kind, Stored, disk, body, views, op, runs, crashes>>

--------------------------------------------------------------------------------
(* Which document, and which body of it.                                    *)

Within(words, title) == \E i \in 0..(Len(title) - Len(words)) : SubSeq(title, i + 1, i + Len(words)) = words

\* pick: the very name, or the shortest title with the name that no longer name claims.
Picked(listing) ==
    LET longer == {s \in Siblings : Len(s) > Len(Name)}
        hits == {t \in listing : Within(Name, t) /\ \A s \in longer : ~Within(s, t)}
    IN  IF Name \in listing THEN {Name}
        ELSE {t \in hits : \A u \in hits : Len(t) <= Len(u)}

\* The body of a rule is asked for by LID: the one in force, whatever the search has found.
Latest(rev) == IF kind = "rule" THEN Len(site)
               ELSE CHOOSE i \in DOMAIN site : site[i].rev = rev /\ \A j \in DOMAIN site : site[j].rev = rev => j <= i
Body(rev) == IF body[rev] # 0 THEN body[rev] ELSE Latest(rev)
Current == site[Len(site)].rev

\* current_meta(deep): the law service's body is read through the cache, the association's anew.
DeepCheck ==
    /\ Started
    /\ body' = [body EXCEPT ![Current] = IF kind # "kofia" THEN Body(Current) ELSE Latest(Current)]
    /\ UNCHANGED <<kind, site, Stored, disk, views, op, crashes>>
ProcessEnds ==
    /\ op = Idle /\ \E r \in DOMAIN body : body[r] # 0
    /\ body' = [r \in DOMAIN body |-> 0]
    /\ UNCHANGED <<kind, site, Stored, disk, views, op, runs, crashes>>

--------------------------------------------------------------------------------
(* collect.                                                                 *)

Step(o) == op' = o /\ UNCHANGED <<kind, site, body, views, runs, crashes>>

Search ==
    /\ Started
    /\ \E listing \in Listings, want \in BOOLEAN :
           IF Picked(listing) = {} THEN UNCHANGED op
           ELSE \E t \in Picked(listing) : op' = [at |-> "fetch", title |-> t, rev |-> Current, want |-> want]
    /\ UNCHANGED <<kind, site, Stored, disk, body, views, crashes>>

Fetch ==
    /\ op.at = "fetch"
    /\ LET of == Body(op.rev)
       IN  Step([at |-> IF kind # "kofia" /\ op.want THEN "download" ELSE "gate", title |-> op.title, rev |-> op.rev,
                 want |-> op.want, of |-> of, tables |-> site[of].tables,
                 files |-> IF kind # "kofia" THEN 1..site[of].tables ELSE {}])
    /\ UNCHANGED <<Stored, disk>>

\* A failed download removes the file of the law service and leaves that of the association.
Downloaded(files, asked, failed) == (files \ asked) \cup (asked \ failed)
Attached(files, asked, failed) == files \cup (asked \ failed)
Download ==
    /\ op.at = "download"
    /\ \E failed \in Failures :
           LET asked == 1..op.tables
               now == IF kind # "kofia" THEN Downloaded(disk[op.title], asked, failed)
                      ELSE Attached(disk[op.title], asked, failed)
           IN  /\ disk' = [disk EXCEPT ![op.title] = now]
               /\ Step(IF kind # "kofia" THEN [op EXCEPT !.at = "gate"]
                       ELSE [op EXCEPT !.at = "again", !.files = asked \cap now])
    /\ UNCHANGED Stored

\* load_old_count, is_collapse: a file that cannot be read is no base to compare with.
IsCollapse(old, n) == old > Floor /\ (n = 0 \/ 2 * n < old)
OldCount(t) == IF saved[t].is = "record" THEN saved[t].tables ELSE 0

Gate ==
    /\ op.at = "gate"
    /\ IF IsCollapse(OldCount(op.title), op.tables)
       THEN /\ quarantine' = [quarantine EXCEPT ![op.title] = [is |-> "record", of |-> op.of]]
            /\ Step(Idle)
       ELSE /\ UNCHANGED quarantine
            /\ Step([op EXCEPT !.at = IF kind = "kofia" /\ op.want /\ op.tables # 0 THEN "download" ELSE "json"])
    /\ UNCHANGED <<saved, text, disk, halved>>

\* build_record once more, for the text of the files; the tables are those that were downloaded.
Again ==
    /\ op.at = "again"
    /\ Step([op EXCEPT !.at = "json", !.of = Body(op.rev)])
    /\ UNCHANGED <<Stored, disk>>

Contents(o) == [is |-> "record", rev |-> o.rev, of |-> o.of, tables |-> o.tables]
Before(t) == IF saved[t].is = "record" THEN [of |-> saved[t].of, tables |-> saved[t].tables] ELSE [of |-> 0, tables |-> 0]
WriteJson ==
    /\ op.at = "json"
    /\ saved' = [saved EXCEPT ![op.title] = Contents(op) @@ [files |-> op.files, before |-> Before(op.title)]]
    /\ halved' = halved \cup {op.title}
    /\ Step([op EXCEPT !.at = "text"])
    /\ UNCHANGED <<text, quarantine, disk>>
WriteText ==
    /\ op.at = "text"
    /\ text' = [text EXCEPT ![op.title] = Contents(op)]
    /\ halved' = halved \ {op.title}
    /\ Step(Idle)
    /\ UNCHANGED <<saved, quarantine, disk>>

--------------------------------------------------------------------------------
(* build: the review page.                                                  *)

Key == IF saved[Name].is = "record" THEN [is |-> "key", rev |-> saved[Name].rev, of |-> saved[Name].of, tables |-> saved[Name].tables]
       ELSE NoRecord
\* Mutant: a view that was saved is used whatever version it was saved under.
AnyVersion(key) == views.key # NoRecord
Hit(key) == key # NoRecord /\ views.key = key

\* build_view_cached; a search that finds nothing is kept as a view, a failure of the source is not.
OpenView ==
    /\ Started
    /\ \E listing \in Listings, answers \in BOOLEAN :
           LET found == Picked(listing) # {}
               seen == [key |-> Key, raw |-> IF found THEN Len(site) ELSE 0,
                        files |-> IF found THEN disk[Name] ELSE {}]
               again == [views EXCEPT !.files = IF @ # {} THEN disk[Name] ELSE {}]
           IN  op' = IF Hit(Key) THEN [at |-> "page", view |-> again, kept |-> again]
                     ELSE IF ~answers THEN [at |-> "page", view |-> [key |-> NoRecord, raw |-> 0, files |-> {}], kept |-> views]
                     ELSE [at |-> "page", view |-> seen, kept |-> IF Key # NoRecord THEN seen ELSE views]
    /\ UNCHANGED <<kind, site, Stored, disk, body, views, crashes>>

\* A torn JSON ends the program: no page, and no view is kept.
WritePage ==
    /\ op.at = "page"
    /\ LET page == [raw |-> op.view.raw, files |-> op.view.files, stats |-> saved[Name], text |-> text[Name]]
       IN  op' = IF saved[Name] = Torn THEN Idle ELSE [at |-> "keep", kept |-> op.kept, page |-> page]
    /\ UNCHANGED <<kind, site, Stored, disk, body, views, runs, crashes>>
KeepViews ==
    /\ op.at = "keep"
    /\ op' = Idle /\ views' = op.kept
    /\ UNCHANGED <<kind, site, Stored, disk, body, runs, crashes>>

\* The program dies; a file it was writing may be left torn.
Crash ==
    /\ op # Idle /\ crashes < MaxCrashes /\ crashes' = crashes + 1
    /\ op' = Idle /\ body' = [r \in DOMAIN body |-> 0]
    /\ saved' \in {saved} \cup {[saved EXCEPT ![t] = Torn] : t \in {u \in Titles : op.at = "json" /\ u = op.title}}
    /\ text' \in {text} \cup {[text EXCEPT ![t] = Torn] : t \in {u \in Titles : op.at = "text" /\ u = op.title}}
    /\ views' \in {views} \cup (IF op.at = "keep" THEN {NoView} ELSE {})
    /\ halved' = halved \cup {t \in Titles : saved'[t] # saved[t] \/ text'[t] # text[t]}
    /\ UNCHANGED <<kind, site, quarantine, disk, runs>>

Next == \/ Publish \/ DeepCheck \/ ProcessEnds \/ Search \/ Fetch \/ Download \/ Gate \/ Again
        \/ WriteJson \/ WriteText \/ OpenView \/ WritePage \/ KeepViews \/ Crash
Spec == Init /\ [][Next]_vars

--------------------------------------------------------------------------------
Records == {t \in Titles : saved[t].is = "record"}

\* Nothing is saved that another registered regulation claims (name_match.pick).
OwnDocument == \A t \in Titles : saved[t] # NoRecord => t \notin Siblings /\ Within(Name, t)

\* A record never replaces a later publication of the regulation, and never one with so many
\* tables that their loss is a collapse (check_and_maybe_block).
CollapsesHeld == \A t \in Records : /\ saved[t].before.of <= saved[t].of
                                    /\ ~IsCollapse(saved[t].before.tables, saved[t].tables)

\* Every file a record of the association names is there, later failures or not.
FilesBacked == kind = "kofia" => \A t \in Records : saved[t].files \subseteq disk[t]

\* The review page never sets a source that is older beside what was collected from it, its
\* counts and its text are of one collection unless a program died between the two writes,
\* and the files it offers were there.
PageIsCoherent ==
    op.at = "keep" =>
        LET page == op.page
        IN  /\ page.raw # 0 /\ page.stats.is = "record" => page.raw >= page.stats.of
            /\ Name \notin halved /\ page.stats.is = "record" =>
                   page.text = [is |-> "record", rev |-> page.stats.rev, of |-> page.stats.of, tables |-> page.stats.tables]
            /\ page.files \subseteq disk[Name]

\* What is stored of a regulation is that regulation, whole, and not less than was there,
\* through failing downloads, silent edits of the source and deaths of the programs.
CollectionStands == OwnDocument /\ CollapsesHeld /\ FilesBacked /\ PageIsCoherent

\* What collect_safety.py says of a collapse: what was collected is left as it is.  The law
\* service's files are downloaded first, so a step need not do so (see the README).
CollapseLeavesFiles ==
    op.at = "gate" /\ quarantine' # quarantine /\ saved[op.title].is = "record" => saved[op.title].files \subseteq disk[op.title]
=============================================================================
