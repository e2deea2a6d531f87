--------------------------- MODULE ExpertSettings ---------------------------
(***************************************************************************)
(* The experts page: PUT /system/experts/{id} and /system/experts/         *)
(* aggregated (server/api/system.rs), the override layer they keep         *)
(* (config/expert_overrides.rs, server/state.rs) and its row in the        *)
(* database, with the requests that save the same "ui" row meanwhile.      *)
(*                                                                         *)
(* An optional value is a set of at most one element.                      *)
(***************************************************************************)
EXTENDS Integers, Sequences, FiniteSets, Functions

CONSTANTS
  FileExperts,     \* [review_experts] of the configuration file: name -> definition
  Slug,            \* slugify: name -> id of the URL
  RoleWords,       \* name -> the categories its title and role have words of
  ExpertPatch,     \* bodies of PUT: [enabled, weight, prompt]
  StoredRow,       \* rows the database may hold at first
  MaxWeight,       \* a prompt over the limit of its length is "long"
  Editor, MaxEdits, MaxEditBoots

VARIABLES
  overrides,       \* AppState::expert_overrides: name -> ExpertOverride
  experts,         \* AppConfig::review_experts
  flag,            \* report.aggregated, and aggregation_override, which reviews ask first
  ui,              \* ui_config: the aggregation flag and the version of the rest
  rows,            \* the rows "expert_overrides" and "ui" of the settings table
  edit,            \* editor -> the request it has in flight
  editHistory      \* accepted values, edits, boots, whether two requests overlapped, whether
                   \* the database refused the ui projection, whether PUT /config set the flag

expertVars == <<overrides, experts, flag, ui, rows, edit, editHistory>>

NoPatch == [enabled |-> {}, weight |-> {}, prompt |-> {}]
NoEdit == [pc |-> "idle", kind |-> "expert", name |-> {}, held |-> <<>>, page |-> <<>>, patch |-> NoPatch]
Over(option, default) == IF option = {} THEN default ELSE option

-----------------------------------------------------------------------------
(* ExpertOverrides.                                                        *)

\* Fault: a patch replaces the whole entry.
RecordWhole(over, name, patch) ==
  [n \in DOMAIN over \cup {name} |-> IF n = name THEN patch ELSE over[n]]

\* record: fields of the patch replace those of the entry, an empty prompt removes the
\* override of it, and an entry without fields goes.
Record(over, name, patch) ==
  LET old == IF name \in DOMAIN over THEN over[name] ELSE NoPatch
      new == [enabled |-> Over(patch.enabled, old.enabled), weight |-> Over(patch.weight, old.weight),
              prompt |-> IF patch.prompt = {""} THEN {} ELSE Over(patch.prompt, old.prompt)]
      others == [n \in DOMAIN over \ {name} |-> over[n]]
  IN  IF new = NoPatch THEN others
      ELSE [n \in DOMAIN over \cup {name} |-> IF n = name THEN new ELSE over[n]]

The(option) == CHOOSE x \in option : TRUE

\* apply_to: names the file no longer has are skipped.
ApplyTo(over, base) ==
  [n \in DOMAIN base |->
     IF n \notin DOMAIN over THEN base[n]
     ELSE [enabled |-> IF over[n].enabled = {} THEN base[n].enabled ELSE The(over[n].enabled),
           weight |-> IF over[n].weight = {} THEN base[n].weight ELSE The(over[n].weight),
           prompt |-> Over(over[n].prompt, base[n].prompt)]]

\* from_setting: a row that is no map is no override; a field of the wrong type or out of
\* range is left out.
FromSetting(row) ==
  IF row = {} \/ The(row).kind # "map" THEN <<>>
  ELSE LET raw == The(row).entries
           read(n) == [enabled |-> raw[n].enabled \cap BOOLEAN,
                       weight |-> {w \in raw[n].weight : w \in 0 .. MaxWeight},
                       prompt |-> raw[n].prompt \ {""}]
       IN  [n \in {m \in DOMAIN raw : read(m) # NoPatch} |-> read(n)]

\* to_setting: what save_expert_overrides stores.
ToSetting(over) == [kind |-> "map", entries |-> over]

ExpertInit ==
  /\ rows \in [overrides : StoredRow, ui : {{}}]
  /\ overrides = FromSetting(rows.overrides)
  /\ experts = ApplyTo(overrides, FileExperts)
  /\ flag = [config |-> FALSE, override |-> {}] /\ ui = [aggregated |-> {}, rest |-> 0]
  /\ edit = [e \in Editor |-> NoEdit]
  /\ editHistory = [accepted |-> <<>>, edits |-> 0, boots |-> 0, overlap |-> FALSE, unsaved |-> FALSE, stated |-> FALSE]

-----------------------------------------------------------------------------
(* Requests.                                                               *)

Begins ==
  /\ editHistory.edits < MaxEdits
  /\ editHistory' = [editHistory EXCEPT !.edits = @ + 1, !.overlap = @ \/ \E e \in Editor : edit[e].pc # "idle"]

\* update_expert up to its first await: bounds, the name of the id (the first that fits),
\* and a copy of the overrides with the patch recorded.
UpdateExpert(e, id, patch) ==
  /\ edit[e].pc = "idle"
  /\ \A w \in patch.weight : w <= MaxWeight
  /\ \A p \in patch.prompt : p # "long"
  /\ \E name \in DOMAIN experts :
       /\ Slug[name] = id /\ \A m \in DOMAIN experts : Slug[m] = id => name <= m
       /\ edit' = [edit EXCEPT ![e] = [pc |-> "save", kind |-> "expert", name |-> {name}, page |-> <<>>,
                                       held |-> Record(overrides, name, patch), patch |-> patch]]
  /\ Begins
  /\ UNCHANGED <<overrides, experts, flag, ui, rows>>

\* update_aggregated: a copy of the ui projection with the flag set.
UpdateAggregated(e, value) ==
  /\ edit[e].pc = "idle"
  /\ edit' = [edit EXCEPT ![e] = [NoEdit EXCEPT !.pc = "save", !.kind = "flag", !.page = [ui EXCEPT !.aggregated = {value}]]]
  /\ Begins
  /\ UNCHANGED <<overrides, experts, flag, ui, rows>>

\* PUT /config, as far as this page is concerned: a copy of the ui projection, with the flag
\* when the request states one.
PutConfigPage(e, said) ==
  /\ edit[e].pc = "idle"
  /\ edit' = [edit EXCEPT ![e] = [NoEdit EXCEPT !.pc = "apply", !.kind = "page",
                 !.page = [aggregated |-> Over(said, ui.aggregated), rest |-> ui.rest + 1]]]
  /\ Begins
  /\ UNCHANGED <<overrides, experts, flag, ui, rows>>

\* It is applied in memory before it is saved: the flag it carries, or that the projection
\* held, in the configuration though not in the override, and the projection.
ApplyPage(e) ==
  /\ edit[e].pc = "apply"
  /\ flag' = [flag EXCEPT !.config = The(Over(edit[e].page.aggregated, {@}))]
  /\ ui' = edit[e].page
  /\ edit' = [edit EXCEPT ![e].pc = "save"]
  /\ editHistory' = [editHistory EXCEPT !.stated = @ \/ ui'.aggregated # ui.aggregated]
  /\ UNCHANGED <<overrides, experts, rows>>

\* The row is written, or is not: then an edit of the experts page is dropped, and a PUT
\* /config is answered with a 500 but stays applied in memory.
SaveSetting(e) ==
  /\ edit[e].pc = "save"
  /\ \/ /\ rows' = IF edit[e].kind = "expert"
                   THEN [rows EXCEPT !.overrides = {ToSetting(edit[e].held)}]
                   ELSE [rows EXCEPT !.ui = {edit[e].page}]
        /\ edit' = [edit EXCEPT ![e].pc = "publish"]
        /\ editHistory' = [editHistory EXCEPT !.unsaved = @ /\ edit[e].kind = "expert"]
     \/ /\ edit' = [edit EXCEPT ![e] = NoEdit]
        /\ editHistory' = [editHistory EXCEPT !.unsaved = @ \/ edit[e].kind = "page"]
        /\ UNCHANGED rows
  /\ UNCHANGED <<overrides, experts, flag, ui>>

\* set_expert_overrides starts from the experts of the file; the flag goes to the three
\* places that read it.  The answer acknowledges the request.
Publish(e) ==
  /\ edit[e].pc = "publish"
  /\ CASE edit[e].kind = "expert" ->
            /\ overrides' = edit[e].held
            /\ experts' = ApplyTo(edit[e].held, FileExperts)
            /\ editHistory' = [editHistory EXCEPT !.accepted =
                 Record(@, The(edit[e].name), edit[e].patch)]
            /\ UNCHANGED <<flag, ui>>
       [] edit[e].kind = "flag" ->
            /\ flag' = [config |-> The(edit[e].page.aggregated), override |-> edit[e].page.aggregated]
            /\ ui' = [ui EXCEPT !.aggregated = edit[e].page.aggregated]
            /\ editHistory' = [editHistory EXCEPT !.stated = FALSE]
            /\ UNCHANGED <<overrides, experts>>
       [] OTHER -> UNCHANGED <<overrides, experts, flag, ui, editHistory>>
  /\ edit' = [edit EXCEPT ![e] = NoEdit]
  /\ UNCHANGED rows

\* A restart: load_and_apply_expert_overrides and the replay of the ui row.
Restart ==
  /\ editHistory.boots < MaxEditBoots
  /\ overrides' = FromSetting(rows.overrides)
  /\ experts' = ApplyTo(overrides', FileExperts)
  /\ ui' = IF rows.ui = {} THEN [aggregated |-> {}, rest |-> 0] ELSE The(rows.ui)
  /\ flag' = [config |-> The(Over(ui'.aggregated, {FALSE})), override |-> ui'.aggregated]
  /\ edit' = [e \in Editor |-> NoEdit]
  /\ editHistory' = [editHistory EXCEPT !.boots = @ + 1, !.unsaved = FALSE, !.stated = FALSE,
       !.overlap = @ \/ \E e \in Editor : edit[e].pc = "publish" \/ (edit[e].pc = "save" /\ edit[e].kind = "page")]
  /\ UNCHANGED rows

ExpertNext ==
  \/ \E e \in Editor :
       \/ \E id \in Range(Slug), patch \in ExpertPatch : UpdateExpert(e, id, patch)
       \/ \E value \in BOOLEAN : UpdateAggregated(e, value)
       \/ \E said \in {{}, {TRUE}, {FALSE}} : PutConfigPage(e, said)
       \/ ApplyPage(e) \/ SaveSetting(e) \/ Publish(e)
  \/ Restart

-----------------------------------------------------------------------------
(* The page.                                                               *)

\* derive_category and icon_for_category: the first category one of whose words occurs.
Categories == <<"security", "performance", "test-coverage", "documentation", "dependencies",
                "accessibility", "architecture", "maintainability">>
DeriveCategory(words) ==
  LET named == SelectSeq(Categories, LAMBDA c : c \in words) IN
  IF named = <<>> THEN "quality" ELSE named[1]

\* expert_view; the prompt is marked as overridden when the layer holds one.
ExpertView(n) ==
  [id |-> Slug[n], enabled |-> experts[n].enabled, weight |-> experts[n].weight, prompt |-> experts[n].prompt,
   category |-> DeriveCategory(RoleWords[n]), promptOverride |-> n \in DOMAIN overrides /\ overrides[n].prompt # {}]

\* list_experts.
ListExperts == [experts |-> {ExpertView(n) : n \in DOMAIN experts}, aggregated |-> flag.config]

-----------------------------------------------------------------------------
(* What the page promises.                                                 *)

\* The experts that run are the file's with the override layer on top, nothing else, and
\* stay within the limits of the code whatever the row held; a prompt that the page does not
\* mark as overridden is the file's.
EffectiveIsLayered ==
  /\ experts = ApplyTo(overrides, FileExperts)
  /\ \A n \in DOMAIN experts : experts[n].weight \in 0 .. MaxWeight
  /\ \A n \in DOMAIN overrides : overrides[n] # NoPatch /\ overrides[n].prompt # {""}
  /\ \A v \in ListExperts.experts :
       ~v.promptOverride => \E n \in DOMAIN FileExperts : Slug[n] = v.id /\ v.prompt = FileExperts[n].prompt

\* Requests that did not overlap: every acknowledged field of an expert is in force and the
\* row of the overrides is what runs; the flag is the one the projection shows, and reviews
\* follow it unless a PUT /config stated another, which does not reach the override; the
\* database keeps the projection, unless a PUT /config was answered with a 500, which was
\* applied by then and leaves the row behind until the next save.
AcceptedEditsHold ==
  ~editHistory.overlap /\ (\A e \in Editor : edit[e].pc = "idle") =>
    /\ \A n \in DOMAIN editHistory.accepted :
         LET a == editHistory.accepted[n] IN
         /\ \A b \in a.enabled : experts[n].enabled = b
         /\ \A w \in a.weight : experts[n].weight = w
         /\ a.prompt # {} => experts[n].prompt = a.prompt
    /\ FromSetting(rows.overrides) = overrides
    /\ \A b \in ui.aggregated : flag.config = b
    /\ \A b \in flag.override : flag.config = b \/ editHistory.stated
    /\ rows.ui = {ui} \/ editHistory.unsaved \/ (rows.ui = {} /\ ui = [aggregated |-> {}, rest |-> 0])
=============================================================================
