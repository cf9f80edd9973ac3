---------------------------- MODULE KeyRegistry ----------------------------
(***************************************************************************)
(* KeyRegistry of wd-keybind with the default key map: an ordered list     *)
(* of bindings of key combinations to actions, in contexts.                *)
(*                                                                         *)
(* A binding without a context (NoContext) counts as global when it is     *)
(* looked up, but register_force tells it from one that says Global.       *)
(* Descriptions and user_override, which nothing reads, are left out.      *)
(***************************************************************************)
EXTENDS Sift

CONSTANTS
  Word,        \* the words of the combinations the user types
  BindAction,  \* the actions the user binds
  BindContext, \* the contexts the user binds them in
  MaxAdded     \* bound: bindings the user makes

ASSUME KeyAssumption == MaxAdded \in Nat

VARIABLES
  keyBindings,  \* KeyRegistry.bindings
  added      \* history: how many bindings the user made

keyVars == <<keyBindings, added>>

NoContext == "none"

Binding(combo, action, context, enabled) ==
  [combo |-> combo, action |-> action, context |-> context, enabled |-> enabled]

\* KeyCombo::parse: the last word that names no modifier is the key.
NoCombo == [modifiers |-> {}, key |-> "none"]
ModifierOf(word) ==
  CASE word \in {"ctrl", "control"}                         -> "ctrl"
    [] word = "shift"                                       -> "shift"
    [] word \in {"alt", "option"}                           -> "alt"
    [] word \in {"meta", "cmd", "command", "win", "super"}  -> "meta"
    [] OTHER                                                -> "none"
ParseCombo(words) ==
  LET named == {i \in DOMAIN words : ModifierOf(words[i]) # "none"}
      keys == DOMAIN words \ named
  IN IF keys = {} THEN NoCombo
     ELSE [modifiers |-> {ModifierOf(words[i]) : i \in named},
           key |-> words[CHOOSE i \in keys : \A j \in keys : j <= i]]

EffectiveContext(b) == IF b.context = NoContext THEN "global" ELSE b.context

\* find_conflict finds a binding, enabled or not.
Conflicts(combo, context) ==
  \E i \in DOMAIN keyBindings :
    /\ keyBindings[i].combo = combo
    /\ EffectiveContext(keyBindings[i]) = IF context = NoContext THEN "global" ELSE context

Forced(list, b) ==
  Append(Sift(list, {i \in DOMAIN list :
                       ~ (list[i].combo = b.combo /\ list[i].context = b.context)}), b)

\* resolve: one pass over the list that keeps the best binding so far.
Eligible(b, combo, active) ==
  b.enabled /\ b.combo = combo /\ EffectiveContext(b) \in {"global"} \cup active
\* The last binding wins.
BetterWhenLater(b, best) == TRUE

Better(b, best) ==
  best = {} \/ \E o \in best : EffectiveContext(o) = "global" /\ EffectiveContext(b) # "global"
BestNow(b, best, combo, active) ==
  IF Eligible(b, combo, active) /\ Better(b, best) THEN {b} ELSE best
BestOf(list, combo, active) ==
  LET best[i \in 0..Len(list)] ==
        IF i = 0 THEN {} ELSE BestNow(list[i], best[i - 1], combo, active)
  IN best
Resolve(combo, active) == BestOf(keyBindings, combo, active)[Len(keyBindings)]

\* default_keymap, in its order.
Ctrl(key) == [modifiers |-> {"ctrl"}, key |-> key]
CtrlShift(key) == [modifiers |-> {"ctrl", "shift"}, key |-> key]
Plain(key) == [modifiers |-> {}, key |-> key]
DefaultBindings ==
  << <<Ctrl("1"), "go_to_single", NoContext>>, <<Ctrl("2"), "go_to_bulk", NoContext>>,
     <<Ctrl("3"), "go_to_options", NoContext>>, <<Ctrl("4"), "go_to_history", NoContext>>,
     <<Ctrl("5"), "go_to_export", NoContext>>,
     <<Ctrl("enter"), "single_lookup", "single_whois">>, <<Ctrl("l"), "single_lookup", NoContext>>,
     <<Ctrl("k"), "single_clear", "single_whois">>,
     <<CtrlShift("c"), "single_copy_raw", "single_whois">>,
     <<Ctrl("enter"), "bulk_start", "bulk_whois">>, <<Plain("escape"), "bulk_stop", "bulk_whois">>,
     <<Ctrl("p"), "bulk_pause", "bulk_whois">>, <<CtrlShift("r"), "bulk_resume", "bulk_whois">>,
     <<Ctrl("i"), "bulk_import", "bulk_whois">>,
     <<CtrlShift("e"), "export_csv", NoContext>>, <<CtrlShift("j"), "export_json", NoContext>>,
     <<CtrlShift("d"), "toggle_dark_mode", NoContext>>, <<Ctrl("b"), "toggle_sidebar", NoContext>>,
     <<Ctrl("f"), "focus_search_bar", NoContext>>, <<Ctrl("?"), "show_shortcuts", NoContext>>,
     <<Plain("f1"), "show_help", NoContext>>, <<Ctrl("s"), "save", NoContext>>,
     <<Ctrl("z"), "undo", NoContext>>, <<Ctrl("y"), "redo", NoContext>>,
     <<Ctrl("a"), "select_all", NoContext>> >>
DefaultBinding(i) ==
  Binding(DefaultBindings[i][1], DefaultBindings[i][2], DefaultBindings[i][3], TRUE)
Registered ==
  LET list[i \in 0..Len(DefaultBindings)] ==
        IF i = 0 THEN <<>> ELSE Forced(list[i - 1], DefaultBinding(i))
  IN list
DefaultKeymap == Registered[Len(DefaultBindings)]

\* What the user may bind.
Combos == {ParseCombo(words) : words \in [1..2 -> Word]} \ {NoCombo}
NewBinding ==
  {Binding(c, a, x, e) : c \in Combos, a \in BindAction, x \in BindContext, e \in BOOLEAN}

KeyInit == keyBindings = <<>> /\ added = 0

\* A registry made anew, with the defaults or without.
LoadDefaults ==
  /\ keyBindings' = DefaultKeymap
  /\ UNCHANGED added

Added == added < MaxAdded /\ added' = added + 1

Register(b) ==
  /\ Added
  /\ ~ Conflicts(b.combo, b.context)
  /\ keyBindings' = Append(keyBindings, b)

RegisterForce(b) ==
  /\ Added
  /\ keyBindings' = Forced(keyBindings, b)

RemoveAction(a) ==
  /\ keyBindings' = Sift(keyBindings, {i \in DOMAIN keyBindings : keyBindings[i].action # a})
  /\ UNCHANGED added

ClearBindings ==
  /\ keyBindings' = <<>>
  /\ UNCHANGED added

KeyNext ==
  \/ LoadDefaults
  \/ \E b \in NewBinding : Register(b) \/ RegisterForce(b)
  \/ \E a \in BindAction : RemoveAction(a)
  \/ ClearBindings

KeySpec == KeyInit /\ [][KeyNext]_keyVars

-----------------------------------------------------------------------------
(* Property *)

\* The one pass of resolve finds a binding when there is one, and a binding of
\* an active context before a global one, wherever they stand in the list; when
\* one context alone is active, it finds the only binding the list has for it,
\* unless the global context was spelt both ways.
ResolvesMostSpecific ==
  \A combo \in Combos : \A active \in SUBSET (BindContext \ {NoContext, "global"}) :
    LET found == Resolve(combo, active)
        fit == {b \in {keyBindings[i] : i \in DOMAIN keyBindings} : Eligible(b, combo, active)}
        specific == {b \in fit : EffectiveContext(b) # "global"}
    IN /\ found \subseteq IF specific = {} THEN fit ELSE specific
       /\ found = {} <=> fit = {}
       /\ \A context \in active : active = {context} /\ specific # {} => found = specific
=============================================================================
