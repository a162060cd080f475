--------------------------- MODULE DeclaredTypes ---------------------------
(***************************************************************************)
(* src/front/type.h and type.cpp with the normalization of declarations in *)
(* AST.cpp.  A type begins with its kind:                                  *)
(*    <<"INT">>, <<"POINTER", aim_type_, offset_limit_>>,                  *)
(*    <<"ARRAY", element_type_, element_count_>> and                       *)
(*    <<"FUNCTION", return_type_, parameter_types_>>,                      *)
(* where a parameter is <<type_, identifier_>>, without a type in a list   *)
(* of names.  Counts are literals.  Normalization yields a type, or throws,*)
(* or asks a type that is not there for its kind.                          *)
(***************************************************************************)
EXTENDS Naturals, SequencesExt

IntType == <<"INT">>
NoType == <<"nullptr">>
Pointer(aim, limit) == <<"POINTER", aim, limit>>
Array(element, count) == <<"ARRAY", element, count>>
Function(return, parameters) == <<"FUNCTION", return, parameters>>

Threw == <<"threw">>
Undefined == <<"undefined">>
Failed(result) == result \in {Threw, Undefined}

\* NestedTypeTransformer::accept: what a part of a declarator makes of a type.
Transformed(type, builder) ==
    CASE builder[1] = "POINTER" -> Pointer(type, "unlimited")
      [] builder[1] = "ARRAY" -> Array(type, builder[2])
      [] builder[1] = "FUNCTION" -> Function(type, builder[2])

\* TypeTransformer::accept.
Accept(builders, type) == FoldLeft(Transformed, type, builders)

\* A parameter that is a function or an array is a pointer; what an array
\* consists of stays as it was written.
AsParameter(written, normalized) ==
    CASE written[1] = "FUNCTION" -> Pointer(normalized, "unlimited")
      [] written[1] = "ARRAY" ->
             Pointer(written[2], IF written[3] = "unknown" THEN "unlimited" ELSE written[3])
      [] OTHER -> normalized

\* The first failure among some results, or else a type made of all of them.
FirstFailure(results, type) ==
    LET failures == SelectSeq(results, Failed)
    IN  IF failures = <<>> THEN type ELSE Head(failures)

RECURSIVE Normalized(_)

\* NormalizeArrayType; the element of an array that is an array has a count.
NormalizedArray(type) ==
    LET element == type[2]
        result == Normalized(element)
    IN  IF element[1] = "FUNCTION" \/ (element[1] = "ARRAY" /\ element[3] = "unknown") THEN Threw
        ELSE FirstFailure(<<result>>, Array(result, type[3]))

\* NormalizeFunctionType.
NormalizedFunction(type) ==
    LET return == Normalized(type[2])
        written == type[3]
        results == [n \in DOMAIN written |-> Normalized(written[n][1])]
        parameters == [n \in DOMAIN written |->
                          <<AsParameter(written[n][1], results[n]), written[n][2]>>]
    IN  IF type[2][1] \in {"ARRAY", "FUNCTION"} THEN Threw
        ELSE FirstFailure(<<return>> \o results, Function(return, parameters))

\* NormalizeParameterDeclaration.
Normalized(type) ==
    CASE type[1] = "POINTER" ->
             LET aim == Normalized(type[2]) IN FirstFailure(<<aim>>, Pointer(aim, type[3]))
      [] type[1] = "ARRAY" -> NormalizedArray(type)
      [] type[1] = "FUNCTION" -> NormalizedFunction(type)
      [] type = NoType -> Undefined
      [] OTHER -> type

\* NormalizeVariableDeclaration.
NormalizedVariable(type) ==
    IF type[1] = "ARRAY" /\ type[3] = "unknown" THEN Threw ELSE Normalized(type)

\* The parameters of a list of names get the type they are declared with last, or INT.
WithTypes(parameters, declared) ==
    [n \in DOMAIN parameters |->
        LET types == SelectSeq(declared, LAMBDA d : d[2] = parameters[n][2])
        IN  IF types = <<>> THEN <<IntType, parameters[n][2]>> ELSE Last(types)]

\* Normalize_function_declaration, for a function with declared behind its parameters.
\* The parser does not mix parameters with and without types.
NormalizedFunctionDeclaration(type, declared) ==
    LET parameters == type[3]
        names == {parameters[n][2] : n \in DOMAIN parameters}
        typed == parameters # <<>> /\ parameters[1][1] # NoType
    IN  IF \/ type[2][1] \in {"ARRAY", "FUNCTION"}
           \/ typed /\ declared # <<>>
           \/ ~typed /\ \/ \E m, n \in DOMAIN parameters : m # n /\ parameters[m][2] = parameters[n][2]
                        \/ \E n \in DOMAIN declared : declared[n][2] \notin names
        THEN Threw
        ELSE Normalized(IF typed THEN type ELSE Function(type[2], WithTypes(parameters, declared)))

\* Declaration and Normalize_declaration, for a declarator that has no body; the
\* initializer is a sequence of one expression or none.
Declaration(name, type, initializer) ==
    LET variable == NormalizedVariable(type)
        function == NormalizedFunctionDeclaration(type, <<>>)
    IN  IF type[1] # "FUNCTION"
        THEN FirstFailure(<<variable>>, <<"VARIABLE_DECLARATION", name, variable>> \o initializer)
        ELSE IF initializer # <<>> THEN Threw
        ELSE FirstFailure(<<function>>, <<"FUNCTION_DECLARATION", name, function>>)

\* Normalize_declaration, for a declarator with a body.  If it is not a function it
\* is treated as a variable all the same: the body lies where a variable has its
\* initializer, and becomes that.
Definition(name, type, declared, body) ==
    LET function == NormalizedFunctionDeclaration(type, declared)
    IN  IF type[1] # "FUNCTION" THEN Declaration(name, type, <<body>>)
        ELSE FirstFailure(<<function>>, <<"FUNCTION_DECLARATION", name, function, body>>)
=============================================================================
