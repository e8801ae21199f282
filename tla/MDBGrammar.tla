----------------------------- MODULE MDBGrammar -----------------------------
(***************************************************************************)
(* The parser of the query language of MillenniumDB, one definition for the*)
(* function of each rule and for each labelled alternative, and the tokens *)
(* as the lexer names them.                                                *)
(***************************************************************************)
EXTENDS Grammar

root == Cat(<<Opt(N("setStatement")), Alt(<<N("matchQuery"), N("describeQuery"),
    N("insertQuery")>>), T("EOF")>>)

matchQuery == Cat(<<N("matchStatement"), Opt(N("whereStatement")), Opt(N("groupByStatement")),
    Opt(N("orderByStatement")), N("returnStatement")>>)

describeQuery == Cat(<<T("K_DESCRIBE"), N("fixedNodeInside")>>)

insertQuery == Cat(<<T("K_INSERT"), Alt(<<N("insertLabelList"), N("insertPropertyList"),
    N("insertEdgeList")>>)>>)

insertLabelList == Cat(<<T("K_LABEL"), ListOf(N("insertLabelElement"), "COMMA")>>)

insertPropertyList == Cat(<<T("K_PROPERTY"), ListOf(N("insertPropertyElement"), "COMMA")>>)

insertEdgeList == Cat(<<T("K_EDGE"), ListOf(N("insertEdgeElement"), "COMMA")>>)

insertLabelElement == Cat(<<T("L_PAR"), Alt(<<N("identifier"), T("ANON_ID")>>), T("COMMA"),
    T("STRING"), T("R_PAR")>>)

insertPropertyElement == Cat(<<T("L_PAR"), N("fixedNodeInside"), T("COMMA"), T("STRING"),
    T("COMMA"), N("value"), T("R_PAR")>>)

insertEdgeElement == Cat(<<T("L_PAR"), N("fixedNodeInside"), T("COMMA"), N("fixedNodeInside"),
    T("COMMA"), N("identifier"), T("R_PAR")>>)

setStatement == Cat(<<T("K_SET"), ListOf(N("setItem"), "COMMA")>>)

matchStatement == Cat(<<T("K_MATCH"), N("graphPattern")>>)

whereStatement == Cat(<<T("K_WHERE"), N("conditionalOrExpr")>>)

groupByStatement == Cat(<<T("K_GROUP"), T("K_BY"), ListOf(N("groupByItem"), "COMMA")>>)

orderByStatement == Cat(<<T("K_ORDER"), T("K_BY"), ListOf(N("orderByItem"), "COMMA")>>)

returnList == Cat(<<T("K_RETURN"), Opt(T("K_DISTINCT")), ListOf(N("returnItem"), "COMMA"),
    Opt(Cat(<<T("K_LIMIT"), T("UNSIGNED_INTEGER")>>))>>)

returnAll == Cat(<<T("K_RETURN"), Opt(T("K_DISTINCT")), T("STAR"), Opt(Cat(<<T("K_LIMIT"),
    T("UNSIGNED_INTEGER")>>))>>)

returnStatement == Alt(<<N("returnList"), N("returnAll")>>)

setItem == Cat(<<T("VARIABLE"), T("SINGLE_EQ"), N("fixedNodeInside")>>)

returnItemVar == Cat(<<T("VARIABLE"), Opt(T("KEY"))>>)

returnItemAgg == Cat(<<N("aggregateFunc"), T("L_PAR"), T("VARIABLE"), Opt(T("KEY")), T("R_PAR")>>)

returnItemCount == Cat(<<T("K_COUNT"), T("L_PAR"), Opt(T("K_DISTINCT")),
    Alt(<<Cat(<<T("VARIABLE"), Opt(T("KEY"))>>), T("STAR")>>), T("R_PAR")>>)

returnItem == Alt(<<N("returnItemVar"), N("returnItemAgg"), N("returnItemCount")>>)

aggregateFunc == OneOf(<<"K_SUM", "K_MAX", "K_MIN", "K_AVG">>)

orderByItemVar == Cat(<<T("VARIABLE"), Opt(T("KEY")), Opt(OneOf(<<"K_ASC", "K_DESC">>))>>)

orderByItemAgg == Cat(<<N("aggregateFunc"), T("L_PAR"), T("VARIABLE"), Opt(T("KEY")), T("R_PAR"),
    Opt(OneOf(<<"K_ASC", "K_DESC">>))>>)

orderByItemCount == Cat(<<T("K_COUNT"), T("L_PAR"), Opt(T("K_DISTINCT")), T("VARIABLE"),
    Opt(T("KEY")), T("R_PAR"), Opt(OneOf(<<"K_ASC", "K_DESC">>))>>)

orderByItem == Alt(<<N("orderByItemVar"), N("orderByItemAgg"), N("orderByItemCount")>>)

groupByItem == Cat(<<T("VARIABLE"), Opt(T("KEY"))>>)

graphPattern == Cat(<<N("basicPattern"), Star(N("optionalPattern"))>>)

optionalPattern == Cat(<<T("K_OPTIONAL"), T("LCURLY_BRACKET"), N("graphPattern"),
    T("RCURLY_BRACKET")>>)

basicPattern == ListOf(N("linearPattern"), "COMMA")

linearPattern == Cat(<<N("node"), Star(Cat(<<Alt(<<N("edge"), N("path")>>), N("node")>>))>>)

path == Alt(<<Cat(<<T("LEQ"), T("LSQUARE_BRACKET"), Opt(N("pathType")), Opt(T("VARIABLE")),
    N("pathAlternatives"), T("RSQUARE_BRACKET"), T("SINGLE_EQ")>>), Cat(<<T("SINGLE_EQ"),
    T("LSQUARE_BRACKET"), Opt(N("pathType")), Opt(T("VARIABLE")), N("pathAlternatives"),
    T("RSQUARE_BRACKET"), T("SINGLE_EQ"), T("GT")>>)>>)

pathAlternatives == ListOf(N("pathSequence"), "PATH_ALTERNATIVE")

pathSequence == ListOf(N("pathAtom"), "PATH_SEQUENCE")

pathAtomSimple == Cat(<<Opt(T("PATH_NEGATION")), T("TYPE"), Opt(N("pathSuffix"))>>)

pathAtomAlternatives == Cat(<<Opt(T("PATH_NEGATION")), T("L_PAR"), N("pathAlternatives"),
    T("R_PAR"), Opt(N("pathSuffix"))>>)

pathAtom == Alt(<<N("pathAtomSimple"), N("pathAtomAlternatives")>>)

pathSuffix == Alt(<<T("STAR"), T("PLUS"), T("QUESTION_MARK"), Cat(<<T("LCURLY_BRACKET"),
    T("UNSIGNED_INTEGER"), T("COMMA"), T("UNSIGNED_INTEGER"), T("RCURLY_BRACKET")>>)>>)

pathType == OneOf(<<"K_ANY", "K_ALL">>)

node == Alt(<<N("fixedNode"), N("varNode")>>)

fixedNode == Cat(<<T("L_PAR"), N("fixedNodeInside"), T("R_PAR")>>)

fixedNodeInside == Alt(<<N("identifier"), T("ANON_ID"), T("EDGE_ID"), N("value")>>)

edge == Alt(<<Cat(<<T("LT"), Opt(Cat(<<T("MINUS"), N("edgeInside")>>)), T("MINUS")>>),
    Cat(<<T("MINUS"), Opt(Cat(<<N("edgeInside"), T("MINUS")>>)), T("GT")>>)>>)

edgeInside == Cat(<<T("LSQUARE_BRACKET"), Opt(OneOf(<<"VARIABLE", "EDGE_ID">>)),
    Opt(OneOf(<<"TYPE", "TYPE_VAR">>)), Opt(N("properties")), T("RSQUARE_BRACKET")>>)

varNode == Cat(<<T("L_PAR"), Opt(T("VARIABLE")), Star(T("TYPE")), Opt(N("properties")),
    T("R_PAR")>>)

properties == Cat(<<T("LCURLY_BRACKET"), ListOf(N("property"), "COMMA"), T("RCURLY_BRACKET")>>)

property == Cat(<<N("identifier"), Alt(<<Cat(<<T("COLON"), N("value")>>), T("TRUE_PROP"),
    T("FALSE_PROP")>>)>>)

identifier == Alt(<<T("NAME"), N("keyword")>>)

boolValue == OneOf(<<"K_TRUE", "K_FALSE">>)

numericValue == Cat(<<Opt(OneOf(<<"PLUS", "MINUS">>)), OneOf(<<"UNSIGNED_INTEGER",
    "UNSIGNED_FLOAT">>)>>)

value == Alt(<<N("numericValue"), T("STRING"), N("boolValue")>>)

conditionalOrExpr == ListOf(N("conditionalAndExpr"), "K_OR")

conditionalAndExpr == ListOf(N("comparisonExpr"), "K_AND")

comparisonExprOp == Cat(<<N("additiveExpr"), Opt(Cat(<<OneOf(<<"EQ", "NEQ", "LT", "GT", "LEQ",
    "GEQ">>), N("additiveExpr")>>))>>)

comparisonExprIs == Cat(<<N("additiveExpr"), T("K_IS"), Opt(T("K_NOT")), N("exprTypename")>>)

comparisonExpr == Alt(<<N("comparisonExprOp"), N("comparisonExprIs")>>)

additiveExpr == Cat(<<N("multiplicativeExpr"), Star(Cat(<<OneOf(<<"PLUS", "MINUS">>),
    N("multiplicativeExpr")>>))>>)

multiplicativeExpr == Cat(<<N("unaryExpr"), Star(Cat(<<OneOf(<<"STAR", "PATH_SEQUENCE",
    "PERCENT">>), N("unaryExpr")>>))>>)

unaryExpr == Alt(<<Cat(<<T("K_NOT"), N("unaryExpr")>>), Cat(<<T("PLUS"), N("unaryExpr")>>),
    Cat(<<T("MINUS"), N("unaryExpr")>>), N("atomicExpr")>>)

exprVar == Cat(<<T("VARIABLE"), Opt(T("KEY"))>>)

exprValueExpr == N("valueExpr")

exprParenthesis == Cat(<<T("L_PAR"), N("conditionalOrExpr"), T("R_PAR")>>)

atomicExpr == Alt(<<N("exprVar"), N("exprValueExpr"), N("exprParenthesis")>>)

valueExpr == Alt(<<T("UNSIGNED_INTEGER"), T("UNSIGNED_FLOAT"), T("STRING"), N("boolValue")>>)

exprTypename == OneOf(<<"K_NULL", "K_STRING", "K_BOOL", "K_INTEGER", "K_FLOAT">>)

keyword == OneOf(<<"K_ALL", "K_AND", "K_AVG", "K_ASC", "K_BY", "K_BOOL", "K_COUNT", "K_DESCRIBE",
    "K_DESC", "K_DISTINCT", "K_EDGE", "K_INSERT", "K_IS", "K_INTEGER", "K_FLOAT", "K_GROUP",
    "K_LABEL", "K_LIMIT", "K_MAX", "K_MATCH", "K_MIN", "K_OPTIONAL", "K_ORDER", "K_OR",
    "K_PROPERTY", "K_NOT", "K_NULL", "K_SET", "K_SUM", "K_STRING", "K_RETURN", "K_WHERE">>)

Rules == [root |-> root, matchQuery |-> matchQuery, describeQuery |-> describeQuery, insertQuery
    |-> insertQuery, insertLabelList |-> insertLabelList, insertPropertyList |->
    insertPropertyList, insertEdgeList |-> insertEdgeList, insertLabelElement |->
    insertLabelElement, insertPropertyElement |-> insertPropertyElement, insertEdgeElement |->
    insertEdgeElement, setStatement |-> setStatement, matchStatement |-> matchStatement,
    whereStatement |-> whereStatement, groupByStatement |-> groupByStatement, orderByStatement |->
    orderByStatement, returnList |-> returnList, returnAll |-> returnAll, returnStatement |->
    returnStatement, setItem |-> setItem, returnItemVar |-> returnItemVar, returnItemAgg |->
    returnItemAgg, returnItemCount |-> returnItemCount, returnItem |-> returnItem, aggregateFunc
    |-> aggregateFunc, orderByItemVar |-> orderByItemVar, orderByItemAgg |-> orderByItemAgg,
    orderByItemCount |-> orderByItemCount, orderByItem |-> orderByItem, groupByItem |->
    groupByItem, graphPattern |-> graphPattern, optionalPattern |-> optionalPattern, basicPattern
    |-> basicPattern, linearPattern |-> linearPattern, path |-> path, pathAlternatives |->
    pathAlternatives, pathSequence |-> pathSequence, pathAtomSimple |-> pathAtomSimple,
    pathAtomAlternatives |-> pathAtomAlternatives, pathAtom |-> pathAtom, pathSuffix |->
    pathSuffix, pathType |-> pathType, node |-> node, fixedNode |-> fixedNode, fixedNodeInside |->
    fixedNodeInside, edge |-> edge, edgeInside |-> edgeInside, varNode |-> varNode, properties |->
    properties, property |-> property, identifier |-> identifier, boolValue |-> boolValue,
    numericValue |-> numericValue, value |-> value, conditionalOrExpr |-> conditionalOrExpr,
    conditionalAndExpr |-> conditionalAndExpr, comparisonExprOp |-> comparisonExprOp,
    comparisonExprIs |-> comparisonExprIs, comparisonExpr |-> comparisonExpr, additiveExpr |->
    additiveExpr, multiplicativeExpr |-> multiplicativeExpr, unaryExpr |-> unaryExpr, exprVar |->
    exprVar, exprValueExpr |-> exprValueExpr, exprParenthesis |-> exprParenthesis, atomicExpr |->
    atomicExpr, valueExpr |-> valueExpr, exprTypename |-> exprTypename, keyword |-> keyword]
=============================================================================
