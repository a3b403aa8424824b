---------------------------- MODULE QueryDecode ----------------------------
(***************************************************************************)
(* Decoding of the instant-query answer in the Thanos ruler                *)
(* (cmd/thanos/rule.go: queryPrometheusInstant, lines 637-718, and        *)
(* convertScalarJSONToVector, lines 611-635).                              *)
(*                                                                         *)
(* JSON is abstracted to tokens: a JSON number, a string holding a number, *)
(* a string holding no number, an array or an object.  Only the numbers   *)
(* Vals are told apart.  The decoders of prometheus/common/model, outside  *)
(* this repository, are modelled from their behaviour: model.Time takes an *)
(* unquoted number, model.SampleValue a quoted one, a sample's value is a  *)
(* [time, value] pair.  A label set is a function from label names        *)
(* (ordered integers) to values; Go iterates it in any order.              *)
(*                                                                         *)
(* The input is fixed by the initial state: the invariants compare the     *)
(* code with reference definitions over every input within the bounds.    *)
(***************************************************************************)
EXTENDS Naturals, Sequences, FiniteSets, SequencesExt

CONSTANTS
    Vals,         \* numbers a token can carry
    LabelNames,   \* label names, ordered as sort.Sort orders them
    LabelValues,  \* label values
    MaxScalarLen, \* bound on the length of a scalar result array
    MaxSamples    \* bound on the samples of a vector result

Tok(kind, v) == [kind |-> kind, val |-> v]
Elems == {Tok(k, v) : k \in {"num", "numstr"}, v \in Vals}
           \cup {Tok(k, 0) : k \in {"str", "arr"}}

(* A raw JSON result: an array of tokens, or an object.                   *)
Arr(s) == [kind |-> "arr", elems |-> s]
Obj == [kind |-> "obj", elems |-> <<>>]
ScalarRaws == {Arr(s) : s \in BoundedSeq(Elems, MaxScalarLen)} \cup {Obj}

Metrics == UNION {[D -> LabelValues] : D \in SUBSET LabelNames}
(* A sample of a vector result: its metric and its value pair.           *)
PairRaws == {Arr(<<t, v>>) : t, v \in {Tok("num", 1), Tok("numstr", 0),
                                       Tok("str", 0)}}
SampleRaws == [metric : Metrics, value : PairRaws]
VectorRaws == {Arr(s) : s \in BoundedSeq(SampleRaws, MaxSamples)} \cup {Obj}

(* The answer of one peer: the HTTP exchange and the decoded body.       *)
Inputs ==
    {[http |-> h, type |-> "vector", raw |-> Obj] :
        h \in {"badaddr", "fail", "badjson"}}
    \cup {[http |-> "ok", type |-> "scalar", raw |-> r] : r \in ScalarRaws}
    \cup {[http |-> "ok", type |-> "vector", raw |-> r] : r \in VectorRaws}
    \cup {[http |-> "ok", type |-> t, raw |-> Obj] : t \in {"matrix", "string"}}

Error == [ok |-> FALSE, vec |-> <<>>]
Ok(vec) == [ok |-> TRUE, vec |-> vec]
Sample(metric, t, v) == [metric |-> metric, t |-> t, v |-> v]

VARIABLES
    in     \* the answer the peer gives

vars == <<in>>

-----------------------------------------------------------------------------
(* model.Time.UnmarshalJSON: an unquoted (decimal) number.               *)
TimeOK(tok) == tok.kind = "num"
(* model.SampleValue.UnmarshalJSON: a quoted string holding a float.     *)
ValueOK(tok) == tok.kind = "numstr"

(* Mutant: the length check accepts any array of at least two elements. *)
convertScalarJSONToVectorLenAtLeast(raw) ==
    IF raw.kind # "arr" \/ Len(raw.elems) < 2 THEN Error
    ELSE LET p == raw.elems
         IN IF ~TimeOK(p[1]) \/ ~ValueOK(p[2]) THEN Error
            ELSE Ok(<<Sample(<<>>, p[1].val, p[2].val)>>)

(* convertScalarJSONToVector: unmarshal into []json.RawMessage, demand   *)
(* exactly two elements, unmarshal the time, then the value, and build a *)
(* one-sample vector with an empty metric.                               *)
convertScalarJSONToVector(raw) ==
    IF raw.kind # "arr" \/ Len(raw.elems) # 2 THEN Error
    ELSE LET p == raw.elems
         IN IF ~TimeOK(p[1]) \/ ~ValueOK(p[2]) THEN Error
            ELSE Ok(<<Sample(<<>>, p[1].val, p[2].val)>>)

(* json.Unmarshal into model.Vector: every sample's pair must decode.    *)
UnmarshalVector(raw) ==
    IF raw.kind # "arr" THEN Error
    ELSE IF \E i \in DOMAIN raw.elems :
                LET p == raw.elems[i].value.elems
                IN ~TimeOK(p[1]) \/ ~ValueOK(p[2])
         THEN Error
         ELSE Ok([i \in DOMAIN raw.elems |->
                    LET s == raw.elems[i] IN
                    Sample(s.metric, s.value.elems[1].val,
                           s.value.elems[2].val)])

LabelLess(a, b) == a.name < b.name

(* Mutant: the label set is handed on in map order, unsorted.            *)
ToLabelsUnsorted(metric, order) ==
    [i \in DOMAIN order |-> [name |-> order[i], value |-> metric[order[i]]]]

(* The loop over e.Metric, in the map order `order`, then sort.Sort.     *)
ToLabels(metric, order) ==
    SortSeq([i \in DOMAIN order |-> [name |-> order[i],
                                     value |-> metric[order[i]]]],
            LabelLess)

(* The switch on m.Data.ResultType: vector and scalar are decoded, any  *)
(* other type is an error.                                               *)
DecodeResult(answer) ==
    CASE answer.type = "vector" -> UnmarshalVector(answer.raw)
      [] answer.type = "scalar" -> convertScalarJSONToVector(answer.raw)
      [] OTHER -> Error

(* queryPrometheusInstant, with orders[i] the order in which Go iterates *)
(* the metric of the i-th sample: the early returns of the URL, the HTTP *)
(* call and the body decoding, the switch on resultType, the conversion  *)
(* of every sample with its labels sorted.                               *)
queryPrometheusInstant(answer, orders) ==
    IF answer.http # "ok" THEN Error
    ELSE LET decoded == DecodeResult(answer)
         IN IF ~decoded.ok THEN Error
            ELSE Ok([i \in DOMAIN decoded.vec |->
                       Sample(ToLabels(decoded.vec[i].metric, orders[i]),
                              decoded.vec[i].t, decoded.vec[i].v)])

(* Every order in which Go may iterate the metrics of the decoded answer.*)
MapOrders(answer) ==
    LET d == DecodeResult(answer)
        n == IF answer.http = "ok" /\ d.ok THEN Len(d.vec) ELSE 0
    IN {o \in [1..n -> SetToAllKPermutations(LabelNames)] :
          \A i \in 1..n : o[i] \in SetToSeqs(DOMAIN d.vec[i].metric)}

Init == in \in Inputs

Next == UNCHANGED vars

Spec == Init /\ [][Next]_vars

-----------------------------------------------------------------------------
(* Spec 4.6: a scalar result is a (timestamp, value) pair and becomes a   *)
(* one-sample vector; any other shape is a decode error.                  *)
ReferenceScalar(raw) ==
    IF \E t, v \in Vals : raw = Arr(<<Tok("num", t), Tok("numstr", v)>>)
       THEN Ok(<<Sample(<<>>, raw.elems[1].val, raw.elems[2].val)>>)
       ELSE Error

(* Spec 4.6: the label set of a sample in canonical (sorted) order.       *)
CanonicalLabels(metric) ==
    SetToSortSeq({[name |-> n, value |-> metric[n]] : n \in DOMAIN metric},
                 LabelLess)

(* Spec 4.6: the answer of one peer as the executor must return it.      *)
ReferenceInstant(answer) ==
    CASE answer.http # "ok" -> Error
      [] answer.type = "scalar" -> ReferenceScalar(answer.raw)
      [] answer.type = "vector" /\ answer.raw.kind = "arr"
             /\ \A i \in DOMAIN answer.raw.elems :
                   \E t, v \in Vals : answer.raw.elems[i].value =
                                      Arr(<<Tok("num", t), Tok("numstr", v)>>) ->
            Ok([i \in DOMAIN answer.raw.elems |->
                  LET s == answer.raw.elems[i] IN
                  Sample(CanonicalLabels(s.metric), s.value.elems[1].val,
                         s.value.elems[2].val)])
      [] OTHER -> Error

-----------------------------------------------------------------------------
(* Spec 4.6 and 8: convertScalarJSONToVector turns exactly the            *)
(* (timestamp, value) pairs into a one-sample vector and rejects every    *)
(* other shape, a 3-element array among them.                            *)
ScalarDecodeMatchesReference ==
    in.type = "scalar" =>
        convertScalarJSONToVector(in.raw) = ReferenceScalar(in.raw)

(* Spec 4.6: whatever order Go iterates the label maps in, the answer of  *)
(* queryPrometheusInstant is the reference answer, with every label set   *)
(* sorted, so rule evaluation compares label sets deterministically.      *)
InstantQueryMatchesReference ==
    \A o \in MapOrders(in) :
        queryPrometheusInstant(in, o) = ReferenceInstant(in)

=============================================================================
