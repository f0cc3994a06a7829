------------------------ MODULE ConfigurationContent ------------------------
(***************************************************************************)
(* The content of configurations: the difference of two JSON documents,    *)
(* and a template's variables.                                             *)
(*                                                                         *)
(* A document is [scalar |-> s], [object |-> f] with f from keys to        *)
(* documents, or [array |-> s] with s a sequence of documents.  A path is  *)
(* the sequence of steps [key |-> k] and [index |-> i] from the root; its  *)
(* text is injective, and left out with the order it gives the changes.    *)
(* A template is a sequence of [text |-> t] and [var |-> name]; references *)
(* that only the text around a value completes are left out.  The name of  *)
(* a definition is [is |-> name, padded |-> whether spaces surround it].   *)
(***************************************************************************)
EXTENDS Integers, SequencesExt

IsObject(v) == "object" \in DOMAIN v
IsArray(v)  == "array" \in DOMAIN v

-----------------------------------------------------------------------------
(* CompareJSON.                                                            *)

Modified(path, p, c) == [path |-> path, type |-> "modified", previous |-> p, current |-> c]
Added(path, c)       == [path |-> path, type |-> "added", current |-> c]
Removed(path, p)     == [path |-> path, type |-> "removed", previous |-> p]

\* Slip: indices only one of the arrays has are passed over.
IndicesShared(p, c) == DOMAIN p \cap DOMAIN c

Indices(p, c) == DOMAIN p \cup DOMAIN c

RECURSIVE compareValue(_, _, _)

\* One case of the switch in compareObject and compareArray.
compareChild(path, k, p, c) ==
    CASE k \notin DOMAIN p -> {Added(path, c[k])}
      [] k \notin DOMAIN c -> {Removed(path, p[k])}
      [] OTHER             -> compareValue(path, p[k], c[k])

compareObject(path, p, c) ==
    UNION {compareChild(Append(path, [key |-> k]), k, p, c) : k \in DOMAIN p \cup DOMAIN c}

compareArray(path, p, c) ==
    UNION {compareChild(Append(path, [index |-> i]), i, p, c) : i \in Indices(p, c)}

compareValue(path, p, c) ==
    CASE p = c                     -> {}
      [] p # c /\ IsObject(p) /\ IsObject(c) -> compareObject(path, p.object, c.object)
      [] p # c /\ IsArray(p) /\ IsArray(c)   -> compareArray(path, p.array, c.array)
      [] OTHER                     -> {Modified(path, p, c)}

CompareJSON(previous, current) == compareValue(<<>>, previous, current)

Paths(diff) == {change.path : change \in diff}

Summary(diff) ==
    [type \in {"added", "removed", "modified"} |-> Cardinality({c \in diff : c.type = type})]

-----------------------------------------------------------------------------
(* Templates.                                                              *)

ExtractVariables(content) == {content[i].var : i \in {i \in DOMAIN content : "var" \in DOMAIN content[i]}}

\* A value is put in once, and not looked into for further references.
RenderVariables(content, values) ==
    IF ~(ExtractVariables(content) \subseteq DOMAIN values) THEN [ok |-> FALSE]
    ELSE [ok |-> TRUE,
          content |-> FlattenSeq([i \in DOMAIN content |->
              IF "var" \in DOMAIN content[i] THEN values[content[i].var] ELSE <<content[i]>>])]

\* Names are compared without the spaces around them.
ValidateVariableDefinitions(content, definitions) ==
    LET names == [i \in DOMAIN definitions |-> definitions[i].name.is]
    IN  /\ "" \notin ToSet(names) /\ IsInjective(names)
        /\ ExtractVariables(content) \subseteq ToSet(names)

\* Names are compared as they are: one with spaces around it is none that can
\* be referenced, and no value is supplied for it.
ResolveVariableDefinitions(definitions, supplied) ==
    LET given(d)  == ~d.name.padded /\ d.name.is \in DOMAIN supplied
        value(d)  == IF given(d) THEN supplied[d.name.is] ELSE d.default
        plain     == {d \in ToSet(definitions) : ~d.name.padded}
    IN  IF \/ \E d \in ToSet(definitions) : d.required /\ value(d) = <<>>
           \/ ~(DOMAIN supplied \subseteq {d.name.is : d \in plain})
        THEN [ok |-> FALSE]
        ELSE [ok |-> TRUE,
              values |-> [n \in {d.name.is : d \in plain} |->
                             value(definitions[SelectLastInSeq(definitions,
                                       LAMBDA d : ~d.name.padded /\ d.name.is = n)])]]

-----------------------------------------------------------------------------
(* What is asked of them, for inputs x.                                    *)

RECURSIVE Patched(_, _, _)

\* A document after the changes of a diff below path.
Patched(diff, path, v) ==
    LET at(p)       == {c \in diff : c.path = p}
        types(p)    == {c.type : c \in at(p)}
        current(p)  == (CHOOSE c \in at(p) : TRUE).current
        patch(f, keys, step(_)) ==
            [k \in {k \in DOMAIN f \cup keys : "removed" \notin types(Append(path, step(k)))} |->
                IF "added" \in types(Append(path, step(k))) THEN current(Append(path, step(k)))
                ELSE Patched(diff, Append(path, step(k)), f[k])]
        below == {c \in diff : c.type = "added" /\ Len(c.path) = Len(path) + 1 /\ IsPrefix(path, c.path)}
    IN  CASE at(path) # {}  -> current(path)
          [] at(path) = {} /\ IsObject(v) ->
                [object |-> patch(v.object, {Last(c.path).key : c \in below}, LAMBDA k : [key |-> k])]
          [] at(path) = {} /\ IsArray(v)  ->
                [array |-> patch(v.array, {Last(c.path).index : c \in below}, LAMBDA i : [index |-> i])]
          [] OTHER          -> v

Opposite(type) == CASE type = "added" -> "removed" [] type = "removed" -> "added" [] OTHER -> type

\* A diff holds all it takes to make the one document of the other, and nothing
\* twice; taken the other way round it has the opposite changes at the same paths.
DiffHolds(x) ==
    LET diff == CompareJSON(x.previous, x.current)
        back == CompareJSON(x.current, x.previous)
        s    == Summary(diff)
    IN  /\ Patched(diff, <<>>, x.previous) = x.current
        /\ diff = {} <=> x.previous = x.current
        /\ \A p, q \in Paths(diff) : IsPrefix(p, q) => p = q
        /\ s["added"] + s["removed"] + s["modified"] = Cardinality(Paths(diff))
        /\ {<<c.path, Opposite(c.type)>> : c \in back} = {<<c.path, c.type>> : c \in diff}

\* With definitions that validate for a template and none padded, values that
\* resolve render it, and no reference is left but those the values hold.
TemplateHolds(x) ==
    LET resolved == ResolveVariableDefinitions(x.definitions, x.supplied)
        rendered == RenderVariables(x.content, resolved.values)
    IN  /\ ValidateVariableDefinitions(x.content, x.definitions)
        /\ \A i \in DOMAIN x.definitions : ~x.definitions[i].name.padded
        /\ resolved.ok
        => /\ rendered.ok
           /\ ExtractVariables(rendered.content)
                \subseteq UNION {ExtractVariables(resolved.values[n]) : n \in DOMAIN resolved.values}
           /\ \A d \in ToSet(x.definitions) : d.required => resolved.values[d.name.is] # <<>>

=============================================================================
