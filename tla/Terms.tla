-------------------------------- MODULE Terms --------------------------------
(***************************************************************************)
(* The school's terms and the current one (internal/school), and the       *)
(* themes of the campus (internal/theme): documents that administrators    *)
(* look up and write in separate statements.                               *)
(***************************************************************************)
EXTENDS Integers, Sequences, FiniteSets

CONSTANTS
  MaxTerms,     \* bound: documents inserted into the term collection
  Names,        \* values of a term
  Themes,       \* defaultCampusThemes, a sequence
  Clerks,       \* requests in progress
  MaxCurrent,   \* bound: documents of the current term
  MaxThemes,    \* bound: documents of a theme
  NoTerm

ASSUME TermsAssumption ==
  /\ NoTerm \notin Names /\ {MaxTerms, MaxCurrent, MaxThemes} \subseteq Nat
  /\ Len(Themes) \in Nat \ {0} /\ DOMAIN Themes = 1 .. Len(Themes)

VARIABLES
  terms,     \* values of the terms inserted, NoTerm where deleted
  current,   \* documents of the current term, in the order they are found
  themes,    \* number of documents of a theme
  desk,      \* what a request is doing
  clashed    \* history: overlapping requests

termVars == <<terms, current, themes, desk, clashed>>

AtDesk == [op |-> "none", id |-> NoTerm, value |-> NoTerm, theme |-> 0]

doing(op) == {c \in Clerks : desk[c].op = op}
wants(op, v) == {c \in doing(op) : desk[c].value = v}

setting(v) == wants("set", v) \cup wants("create", v)

Take(c, op, i, v) ==
  /\ desk[c] = AtDesk
  /\ desk' = [desk EXCEPT ![c] = [AtDesk EXCEPT !.op = op, !.id = i, !.value = v]]
Leave(c) == desk' = [desk EXCEPT ![c] = AtDesk]

Clash(what, S) == clashed' = clashed \cup {what : c \in S}

-----------------------------------------------------------------------------
(* Terms.                                                                   *)

CountTermsByValue(v) == Cardinality({i \in DOMAIN terms : terms[i] = v})

FindTermByValue(v) == {i \in DOMAIN terms : terms[i] = v}

currentTermRecord == IF current = <<>> THEN NoTerm ELSE Head(current)

\* The term a client is shown, if there is one.
CurTerm == IF FindTermByValue(currentTermRecord) = {} THEN NoTerm ELSE currentTermRecord

AddTerm(c, v) ==
  /\ CountTermsByValue(v) = 0
  /\ Take(c, "add", NoTerm, v)
  /\ Clash(<<"add", v>>, wants("add", v))
  /\ UNCHANGED <<terms, current, themes>>

CreateTerm(c) ==
  /\ desk[c].op = "add" /\ Len(terms) < MaxTerms
  /\ terms' = Append(terms, desk[c].value)
  /\ Leave(c)
  /\ UNCHANGED <<current, themes, clashed>>

\* Mutant: the current term is not looked at.
DeleteAnyTerm(c, i) ==
  /\ terms[i] # NoTerm
  /\ Take(c, "delete", i, terms[i])
  /\ Clash(<<"current", terms[i]>>, setting(terms[i]))
  /\ UNCHANGED <<terms, current, themes>>

\* The current term is not deleted.
DeleteTerm(c, i) ==
  /\ terms[i] # NoTerm /\ terms[i] # currentTermRecord
  /\ Take(c, "delete", i, terms[i])
  /\ Clash(<<"current", terms[i]>>, setting(terms[i]))
  /\ UNCHANGED <<terms, current, themes>>

DeleteTermByID(c) ==
  /\ desk[c].op = "delete"
  /\ terms' = [terms EXCEPT ![desk[c].id] = NoTerm]
  /\ Leave(c)
  /\ UNCHANGED <<current, themes, clashed>>

\* A current term that is already set is left alone.
SetCurrentTerm(c, i) ==
  /\ terms[i] # NoTerm /\ terms[i] # currentTermRecord
  /\ Take(c, IF current = <<>> THEN "create" ELSE "set", i, terms[i])
  /\ clashed' = clashed \cup {<<"current", terms[i]>> : d \in wants("delete", terms[i])}
                        \cup {<<"two current">> : d \in {d \in doing("create") : current = <<>>}}
  /\ UNCHANGED <<terms, current, themes>>

UpdateCurrentTerm(c) ==
  /\ desk[c].op = "set"
  /\ current' = [current EXCEPT ![1] = desk[c].value]
  /\ Leave(c)
  /\ UNCHANGED <<terms, themes, clashed>>

CreateCurrentTerm(c) ==
  /\ desk[c].op = "create" /\ Len(current) < MaxCurrent
  /\ current' = Append(current, desk[c].value)
  /\ Leave(c)
  /\ UNCHANGED <<terms, themes, clashed>>

TermsNext ==
  \E c \in Clerks :
    \/ \E v \in Names : AddTerm(c, v)
    \/ \E i \in DOMAIN terms : DeleteTerm(c, i) \/ SetCurrentTerm(c, i)
    \/ CreateTerm(c) \/ DeleteTermByID(c) \/ UpdateCurrentTerm(c) \/ CreateCurrentTerm(c)

-----------------------------------------------------------------------------
(* Themes.                                                                  *)

\* The default themes are put in one after the other.
ToTheme(c, t) ==
  /\ desk' = [desk EXCEPT ![c] = [AtDesk EXCEPT !.op = "themes", !.theme = t]]
  /\ Clash(<<"theme", t>>, {d \in doing("themes") \ {c} : desk[d].theme = t})

InitCampusThemes(c) ==
  /\ desk[c] = AtDesk
  /\ ToTheme(c, 1)
  /\ UNCHANGED <<terms, current, themes>>

\* A theme that is there is left as it is.
setOnInsert(t) == [themes EXCEPT ![t] = IF @ = 0 THEN 1 ELSE @]

\* The server may insert for each of two upserts that run at the same time:
\* there is no unique index.
UpsertCampusTheme(c) ==
  LET t == desk[c].theme IN
  /\ desk[c].op = "themes"
  /\ \/ themes' = setOnInsert(t)
     \/ /\ \E d \in doing("themes") \ {c} : desk[d].theme = t
        /\ themes' = [themes EXCEPT ![t] = IF @ < MaxThemes THEN @ + 1 ELSE @]
  /\ IF t < Len(Themes) THEN ToTheme(c, t + 1) ELSE Leave(c) /\ UNCHANGED clashed
  /\ UNCHANGED <<terms, current>>

\* An upsert that fails ends the request.
upsertFails(c) ==
  /\ desk[c].op = "themes"
  /\ Leave(c)
  /\ UNCHANGED <<terms, current, themes, clashed>>

ThemesNext == \E c \in Clerks : InitCampusThemes(c) \/ UpsertCampusTheme(c) \/ upsertFails(c)

-----------------------------------------------------------------------------

TermsInit ==
  /\ terms = <<>> /\ current = <<>>
  /\ themes = [t \in DOMAIN Themes |-> 0]
  /\ desk = [c \in Clerks |-> AtDesk]
  /\ clashed = {}

TermsSpec == TermsInit /\ [][TermsNext \/ ThemesNext]_termVars

-----------------------------------------------------------------------------
(* Properties.                                                              *)

\* Once there is a current term CurTerm finds its record: DeleteTerm refuses the
\* current term. Only a deletion and a SetCurrentTerm of the same term that
\* overlap leave a current term that is gone.
CurrentTermExists ==
  current # <<>> /\ <<"current", currentTermRecord>> \notin clashed => CurTerm # NoTerm

\* There is one document for the current term, unless the first two requests
\* that set it overlapped.
OneCurrentTerm == <<"two current">> \notin clashed => Len(current) <= 1

\* A term is there once, unless it was added twice at the same time.
OneTermEach == \A v \in Names : <<"add", v>> \notin clashed => CountTermsByValue(v) <= 1

\* However often the default themes are initialised, and wherever that fails,
\* each is there once, unless two requests were at the same theme.
ThemesOnce == \A t \in DOMAIN Themes : <<"theme", t>> \notin clashed => themes[t] <= 1

\* There is one current term, its record exists, and every term and theme is there
\* once, unless requests for it overlapped.
TermsAgree ==
  /\ CurrentTermExists
  /\ OneCurrentTerm
  /\ OneTermEach
  /\ ThemesOnce
=============================================================================
