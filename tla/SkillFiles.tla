----------------------------- MODULE SkillFiles ------------------------------
(***************************************************************************)
(* The SKILL.md of one service: its regeneration by generate-skills and,   *)
(* on drift, by the daemon, what they keep of the user's text, and the     *)
(* user who edits it (generation/preserve.ts, file-manager.ts,             *)
(* auto-regen.ts, templates.ts, cli/commands/generate-skills.ts).          *)
(*                                                                         *)
(* A file is a sequence of parts: the frontmatter with the user's own      *)
(* keys, the two AUTO-GENERATED markers, generated text, MANUAL sections   *)
(* and other text of the user.  A second MANUAL section is copied once     *)
(* more by each regeneration, hence the bound on the parts.                *)
(***************************************************************************)
EXTENDS Naturals, Sequences, SequencesExt, FiniteSetsExt, Orders

CONSTANTS Sections,    \* MANUAL sections a user may write
          Texts,       \* other text a user may write, and keys of the frontmatter
          Regens,      \* regenerations under way at once
          MaxParts,    \* bound: parts of a file that is edited or regenerated
          MaxEdits,    \* bound: times that the user saves
          Placeholder, \* the empty MANUAL section of the template
          NoFile

ASSUME SkillAssumption ==
    NoFile \notin Seq([kind : {"front", "start", "end", "generated", "manual", "text"},
                      text : Texts \cup Sections \cup {Placeholder}, keys : SUBSET Texts])

VARIABLES skillFile, \* SKILL.md
          regen,     \* each regeneration: pc, mode, the content to be written
          edited,    \* history: regenerations during which somebody else has replaced the user's text
          saved,     \* history: the text outside the markers when the user last saved
          edits      \* how often the user has saved

skillVars == <<skillFile, regen, edited, saved, edits>>

Part(kind, text) == [kind |-> kind, text |-> text, keys |-> {}]
FrontMatter(keys) == [Part("front", Placeholder) EXCEPT !.keys = keys]
START == Part("start", Placeholder)
END == Part("end", Placeholder)
Manual(s) == Part("manual", s)

\* generateSkillMd: the placeholder comes after the markers
Template == <<FrontMatter({}), START, Part("generated", Placeholder), END, Manual(Placeholder)>>

First(f, part) == Min({i \in DOMAIN f : f[i] = part})
Has(f, part) == part \in ToSet(f)

\* extractManualSections: all of them, wherever they are
ManualSections(f) == IF f = NoFile THEN <<>> ELSE Selected(f, {i \in DOMAIN f : f[i].kind = "manual"})

\* injectManualSections into the template: the first section takes the place of the placeholder, the
\* others go before the end marker
InjectManualSections(f, sections) ==
    IF sections = <<>> THEN f
    ELSE LET end == First(f, END) IN
         SubSeq(f, 1, end - 1) \o Tail(sections) \o <<END>>
         \o [i \in 1..(Len(f) - end) |-> IF f[end + i] = Manual(Placeholder) THEN Head(sections) ELSE f[end + i]]

\* mergeGeneratedFrontmatter: the user's keys are kept, the generated ones are replaced (here they are
\* always the same)
MergeFront(head, f) ==
    IF \E i \in DOMAIN head : head[i].kind = "front"
    THEN head
    ELSE <<f[1]>> \o head

\* Mutant: what follows the end marker is the generated content's
MergeDroppingTail(existing, f) ==
    LET auto == SubSeq(f, First(f, START), First(f, END)) IN
    IF ~Has(existing, START) \/ ~Has(existing, END) THEN existing \o auto
    ELSE MergeFront(SubSeq(existing, 1, First(existing, START) - 1), f) \o auto
         \o SubSeq(f, First(f, END) + 1, Len(f))

\* mergeContent: the block between the markers is replaced, or appended when there is none
MergeContent(existing, f) ==
    LET auto == SubSeq(f, First(f, START), First(f, END)) IN
    IF ~Has(existing, START) \/ ~Has(existing, END) THEN existing \o auto
    ELSE MergeFront(SubSeq(existing, 1, First(existing, START) - 1), f) \o auto
         \o SubSeq(existing, First(existing, END) + 1, Len(existing))

\* What is outside the markers, of that what the user wrote, and the keys of the frontmatter
Outside(f) ==
    IF f = NoFile THEN <<>>
    ELSE IF Has(f, START) /\ Has(f, END)
    THEN SubSeq(f, 1, First(f, START) - 1) \o SubSeq(f, First(f, END) + 1, Len(f)) ELSE f

TextOf(f) == [parts |-> Selected(f, {i \in DOMAIN f : f[i].kind \in {"manual", "text"}}),
              keys |-> UNION {f[i].keys : i \in DOMAIN f}]

UserText(f) == TextOf(Outside(f))

IdleRegen == [pc |-> "idle", mode |-> "merge", content |-> <<>>]

SkillInit ==
    /\ skillFile \in {NoFile, Template} \cup {<<Part("text", t)>> : t \in Texts}
    /\ regen = [r \in Regens |-> IdleRegen]
    /\ edited = {}
    /\ edits = 0
    /\ saved = UserText(skillFile)

-------------------------------------------------------------------------------
Save(f) ==
    /\ edits < MaxEdits
    /\ edits' = edits + 1
    /\ skillFile' = f
    /\ saved' = UserText(f)
    /\ edited' = {r \in Regens : regen[r].pc # "idle"}
    /\ UNCHANGED regen

\* The user writes a section or text at some place, a key into the frontmatter, or removes a part;
\* the markers stay as they are
UserEdits ==
    /\ skillFile # NoFile
    /\ \/ /\ Len(skillFile) < MaxParts
          /\ \E i \in 2..(Len(skillFile) + 1) :
                \E p \in {Manual(s) : s \in Sections} \cup {Part("text", t) : t \in Texts} :
                    ~Has(skillFile, p) /\ Save(InsertAt(skillFile, i, p))
       \/ \E t \in Texts : skillFile[1].kind = "front" /\ Save([skillFile EXCEPT ![1].keys = @ \cup {t}])
       \/ \E i \in 2..Len(skillFile) : skillFile[i].kind \notin {"start", "end"} /\ Save(RemoveAt(skillFile, i))

\* The existing file is read, its sections put into the new content
Generate(r, mode) ==
    /\ regen[r].pc = "idle"
    /\ skillFile # NoFile => Len(skillFile) <= MaxParts
    /\ regen' = [regen EXCEPT ![r] = [pc |-> "generated", mode |-> mode,
           content |-> InjectManualSections(Template, ManualSections(skillFile))]]
    /\ edited' = edited \ {r}
    /\ UNCHANGED <<skillFile, saved, edits>>

\* handleGenerateSkills, for tools of which the policy leaves some. Without --conflict it skips.
GenerateSkill(r, mode) == Generate(r, mode)

\* autoRegenerateSkills, by the drift check
AutoRegenerate(r) == Generate(r, "merge")

\* planFileWrites reads the file again
PlanWrite(r) ==
    LET g == regen[r] IN
    /\ g.pc = "generated"
    /\ regen' = [regen EXCEPT ![r] =
           IF skillFile # NoFile /\ g.mode = "skip" THEN IdleRegen
           ELSE [g EXCEPT !.pc = "planned",
                          !.content = IF skillFile # NoFile /\ g.mode = "merge" THEN MergeContent(skillFile, @) ELSE @]]
    /\ edited' = edited \ {r}
    /\ UNCHANGED <<skillFile, saved, edits>>

\* executeFileWrites, over what the file is by now. --dry-run and --diff end before, and a failed write
\* changes nothing here.
ExecuteWrite(r, ok) ==
    LET replaces == ok /\ (skillFile = NoFile \/ regen[r].mode = "force" \/ r \in edited) IN
    /\ regen[r].pc = "planned"
    /\ skillFile' = IF ok THEN regen[r].content ELSE skillFile
    /\ saved' = IF replaces THEN UserText(regen[r].content) ELSE saved
    /\ edited' = (edited \ {r}) \cup {q \in Regens \ {r} : replaces /\ regen[q].pc # "idle"}
    /\ regen' = [regen EXCEPT ![r] = IdleRegen]
    /\ UNCHANGED edits

SkillNext ==
    \/ UserEdits
    \/ \E r \in Regens :
          \/ \E mode \in {"skip", "force", "merge"} : GenerateSkill(r, mode)
          \/ AutoRegenerate(r)
          \/ PlanWrite(r)
          \/ \E ok \in BOOLEAN : ExecuteWrite(r, ok)

SkillSpec == SkillInit /\ [][SkillNext]_skillVars

-------------------------------------------------------------------------------
\* A merge keeps what the user wrote outside the markers, part by part and in its order, and the user's
\* frontmatter, and the file has one generated block, however often it is regenerated and also when
\* daemon and command do it at once. Not when the user saves between the plan of a write and the write,
\* and not under --conflict=force (file-manager.ts 85-176, 218-228).
UserTextKept ==
    skillFile # NoFile =>
        /\ UserText(skillFile) = saved
        /\ Cardinality({i \in DOMAIN skillFile : skillFile[i] = START}) <= 1
===============================================================================
