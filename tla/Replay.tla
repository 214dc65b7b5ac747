-------------------------------- MODULE Replay --------------------------------
(***************************************************************************)
(* The record of a decision and its replay (trace-store: lib.rs, record.rs,*)
(* replay.rs, redact.rs, secrets.rs, bundle.rs).  A host that records keeps*)
(* the action, the redacted arguments, a snapshot of the context and what  *)
(* was decided; a bundle puts the records beside the manifest they were    *)
(* made under.  Replay compiles the manifest again, decides every record   *)
(* again and compares.                                                     *)
(***************************************************************************)
EXTENDS HostWorld

CONSTANTS
  RedactedKeys,  \* the keys, as the names on the way to them or alone, that a redaction
                 \* pattern of the world matches
  SecretShaped   \* the symbols of a text that stand for a secret of an issuer's shape

REDACTED == "[REDACTED]"

\* Only the secret itself is masked, so that the text around it can be read.
mask_secrets(text) ==
  [i \in DOMAIN text |-> IF text[i] \in SecretShaped THEN REDACTED ELSE text[i]]

\* A key that matches masks its whole value; an item of a list has its list's key.
redact_at(inner(_, _), v, path) ==
  CASE is(v, "str") -> Str(mask_secrets(v.str))
    [] is(v, "list") -> [list |-> [i \in DOMAIN v.list |-> inner(v.list[i], path)]]
    [] is(v, "obj") ->
         Obj([k \in DOMAIN v.obj |->
                IF {<<k>>, Append(path, k)} \cap RedactedKeys # {} THEN Str(<<REDACTED>>)
                ELSE inner(v.obj[k], Append(path, k))])
    [] OTHER -> v

Leaf(v, path) == IF is(v, "str") THEN Str(mask_secrets(v.str)) ELSE v
RedactedArg(v, path) == redact_at(Leaf, v, path)
redact(arguments) == redact_at(RedactedArg, arguments, <<>>)

\* Variant: a snapshot that does not say a grant covered the call.
ContextSnapshot_Ungranted(ctx) ==
  [taint |-> ctx.taint.taint, mode |-> ctx.mode, usage |-> ctx.usage, approval_granted |-> FALSE]

\* What is kept of the context: the ambient taint, and not whose argument was whose.
ContextSnapshot(ctx) ==
  [taint |-> ctx.taint.taint, mode |-> ctx.mode, usage |-> ctx.usage,
   approval_granted |-> ctx.approval_granted]

\* A decision is made once, and what it was is kept as it was.
record_decision(action, arguments, trust, ctx, outcome) ==
  [action |-> action, params |-> redact(arguments), provenance |-> trust,
   context |-> ContextSnapshot(ctx), outcome |-> outcome]

recompute(w, r) ==
  decide(w, r.action, r.params, r.provenance, [r.context EXCEPT !.taint = from_taint(@)])

\* The records, of a sequence, that a world decides otherwise; against the world
\* they were made under there should be none, against another they are its drift.
replay(records, w) == {i \in DOMAIN records : recompute(w, records[i]) # records[i].outcome}

\* What a bundle is replayed against: its own manifest, compiled anew.
Bundled == [m \in {n \in DOMAIN Manifests : validate_manifest(Manifests[n])} |->
              compile(Manifests[m])]
=============================================================================
