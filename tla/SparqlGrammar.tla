----------------------------- MODULE SparqlGrammar -----------------------------
(***************************************************************************)
(* The parser of SPARQL queries and updates, one definition for the        *)
(* function of each rule and for each labelled alternative.                *)
(***************************************************************************)
EXTENDS Grammar

query == Alt(<<Cat(<<N("prologue"), Opt(Alt(<<N("selectQuery"), N("constructQuery"),
    N("describeQuery"), N("askQuery")>>)), N("valuesClause"), T("EOF")>>),
    Cat(<<N("updateCommand"), T("EOF")>>)>>)

prologue == Star(Alt(<<N("baseDecl"), N("prefixDecl")>>))

baseDecl == Cat(<<T("BASE"), T("IRIREF")>>)

prefixDecl == Cat(<<T("PREFIX"), T("PNAME_NS"), T("IRIREF")>>)

selectQuery == Cat(<<N("selectClause"), Star(N("datasetClause")), N("whereClause"),
    N("solutionModifier")>>)

subSelect == Cat(<<N("selectClause"), N("whereClause"), N("solutionModifier"),
    N("valuesClause")>>)

selectClause == Cat(<<T("SELECT"), Opt(N("selectModifier")), Alt(<<Plus(N("selectVariables")),
    T("ASTERISK")>>)>>)

selectModifier == OneOf(<<"DISTINCT", "REDUCED">>)

selectSingleVariable == N("var")

selectExpressionAsVariable == Cat(<<T("OPEN_BRACE"), N("expression"), T("AS"), N("var"),
    T("CLOSE_BRACE")>>)

selectVariables == Alt(<<N("selectSingleVariable"), N("selectExpressionAsVariable")>>)

constructQuery == Cat(<<T("CONSTRUCT"), Alt(<<Cat(<<N("constructTemplate"),
    Star(N("datasetClause")), N("whereClause"), N("solutionModifier")>>),
    Cat(<<Star(N("datasetClause")), T("WHERE"), T("OPEN_CURLY_BRACE"), Opt(N("triplesTemplate")),
    T("CLOSE_CURLY_BRACE"), N("solutionModifier")>>)>>)>>)

describeQuery == Cat(<<T("DESCRIBE"), Alt(<<Plus(N("varOrIRI")), T("ASTERISK")>>),
    Star(N("datasetClause")), Opt(N("whereClause")), N("solutionModifier")>>)

askQuery == Cat(<<T("ASK"), Star(N("datasetClause")), N("whereClause"), N("solutionModifier")>>)

datasetClause == Cat(<<T("FROM"), Opt(T("NAMED")), N("iri")>>)

whereClause == Cat(<<Opt(T("WHERE")), N("groupGraphPattern")>>)

solutionModifier == Cat(<<Opt(N("groupClause")), Opt(N("havingClause")), Opt(N("orderClause")),
    Opt(N("limitOffsetClauses"))>>)

groupClause == Cat(<<T("GROUP"), T("BY"), Plus(N("groupCondition"))>>)

groupCondition == Alt(<<N("builtInCall"), N("functionCall"), Cat(<<T("OPEN_BRACE"),
    N("expression"), Opt(Cat(<<T("AS"), N("var")>>)), T("CLOSE_BRACE")>>), N("var")>>)

havingClause == Cat(<<T("HAVING"), Plus(N("havingCondition"))>>)

havingCondition == N("constraint")

orderClause == Cat(<<T("ORDER"), T("BY"), Plus(N("orderCondition"))>>)

orderCondition == Alt(<<Cat(<<OneOf(<<"ASC", "DESC">>), T("OPEN_BRACE"), N("expression"),
    T("CLOSE_BRACE")>>), N("constraint"), N("var")>>)

limitOffsetClauses == Alt(<<Cat(<<N("limitClause"), Opt(N("offsetClause"))>>),
    Cat(<<N("offsetClause"), Opt(N("limitClause"))>>)>>)

limitClause == Cat(<<T("LIMIT"), T("INTEGER")>>)

offsetClause == Cat(<<T("OFFSET"), T("INTEGER")>>)

valuesClause == Opt(Cat(<<T("VALUES"), N("dataBlock")>>))

updateCommand == Cat(<<N("prologue"), Opt(Cat(<<N("update"), Star(Cat(<<T("SEMICOLON"),
    N("prologue"), N("update")>>)), Opt(Cat(<<T("SEMICOLON"), N("prologue")>>))>>))>>)

update == Alt(<<N("load"), N("clear"), N("drop"), N("add"), N("move"), N("copy"), N("create"),
    N("insertData"), N("deleteData"), N("deleteWhere"), N("modify")>>)

load == Cat(<<T("LOAD"), Opt(T("SILENT")), N("iri"), Opt(Cat(<<T("INTO"), N("graphRef")>>))>>)

clear == Cat(<<T("CLEAR"), Opt(T("SILENT")), N("graphRefAll")>>)

drop == Cat(<<T("DROP"), Opt(T("SILENT")), N("graphRefAll")>>)

create == Cat(<<T("CREATE"), Opt(T("SILENT")), N("graphRef")>>)

add == Cat(<<T("ADD"), Opt(T("SILENT")), N("graphOrDefault"), T("TO"), N("graphOrDefault")>>)

move == Cat(<<T("MOVE"), Opt(T("SILENT")), N("graphOrDefault"), T("TO"), N("graphOrDefault")>>)

copy == Cat(<<T("COPY"), Opt(T("SILENT")), N("graphOrDefault"), T("TO"), N("graphOrDefault")>>)

insertData == Cat(<<T("INSERT"), T("DATA"), N("quadData")>>)

deleteData == Cat(<<T("DELETE"), T("DATA"), N("quadData")>>)

deleteWhere == Cat(<<T("DELETE"), T("WHERE"), N("quadPattern")>>)

modify == Cat(<<Opt(Cat(<<T("WITH"), N("iri")>>)), Alt(<<Cat(<<N("deleteClause"),
    Opt(N("insertClause"))>>), N("insertClause")>>), Star(N("usingClause")), T("WHERE"),
    N("groupGraphPattern")>>)

deleteClause == Cat(<<T("DELETE"), N("quadPattern")>>)

insertClause == Cat(<<T("INSERT"), N("quadPattern")>>)

usingClause == Cat(<<T("USING"), Opt(T("NAMED")), N("iri")>>)

graphOrDefault == Alt(<<T("DEFAULT"), Cat(<<Opt(T("GRAPH")), N("iri")>>)>>)

graphRef == Cat(<<T("GRAPH"), N("iri")>>)

graphRefAll == Alt(<<N("graphRef"), T("DEFAULT"), T("NAMED"), T("ALL")>>)

quadPattern == Cat(<<T("OPEN_CURLY_BRACE"), N("quads"), T("CLOSE_CURLY_BRACE")>>)

quadData == Cat(<<T("OPEN_CURLY_BRACE"), N("quads"), T("CLOSE_CURLY_BRACE")>>)

quads == Cat(<<Opt(N("triplesTemplate")), Star(N("quadsDetails"))>>)

quadsDetails == Cat(<<N("quadsNotTriples"), Opt(T("DOT")), Opt(N("triplesTemplate"))>>)

quadsNotTriples == Cat(<<T("GRAPH"), N("varOrIRI"), T("OPEN_CURLY_BRACE"),
    Opt(N("triplesTemplate")), T("CLOSE_CURLY_BRACE")>>)

triplesTemplate == Cat(<<N("triplesSameSubject"), Star(Cat(<<T("DOT"),
    Opt(N("triplesSameSubject"))>>))>>)

groupGraphPattern == Cat(<<T("OPEN_CURLY_BRACE"), Alt(<<N("subSelect"),
    N("groupGraphPatternSub")>>), T("CLOSE_CURLY_BRACE")>>)

groupGraphPatternSub == Cat(<<Opt(N("triplesBlock")), Star(N("groupGraphPatternSubList"))>>)

groupGraphPatternSubList == Cat(<<N("graphPatternNotTriples"), Opt(T("DOT")),
    Opt(N("triplesBlock"))>>)

triplesBlock == Cat(<<N("triplesSameSubjectPath"), Star(Cat(<<T("DOT"),
    Opt(N("triplesSameSubjectPath"))>>))>>)

graphPatternNotTriples == Alt(<<N("groupOrUnionGraphPattern"), N("optionalGraphPattern"),
    N("minusGraphPattern"), N("graphGraphPattern"), N("serviceGraphPattern"), N("filter"),
    N("bind"), N("inlineData")>>)

optionalGraphPattern == Cat(<<T("OPTIONAL"), N("groupGraphPattern")>>)

graphGraphPattern == Cat(<<T("GRAPH"), N("varOrIRI"), N("groupGraphPattern")>>)

serviceGraphPattern == Cat(<<T("SERVICE"), Opt(T("SILENT")), N("varOrIRI"),
    N("groupGraphPattern")>>)

bind == Cat(<<T("BIND"), T("OPEN_BRACE"), N("expression"), T("AS"), N("var"), T("CLOSE_BRACE")>>)

inlineData == Cat(<<T("VALUES"), N("dataBlock")>>)

dataBlock == Alt(<<N("inlineDataOneVar"), N("inlineDataFull")>>)

inlineDataOneVar == Cat(<<N("var"), T("OPEN_CURLY_BRACE"), Star(N("dataBlockValue")),
    T("CLOSE_CURLY_BRACE")>>)

inlineDataFull == Cat(<<T("OPEN_BRACE"), Star(N("var")), T("CLOSE_BRACE"), T("OPEN_CURLY_BRACE"),
    Star(N("dataBlockValues")), T("CLOSE_CURLY_BRACE")>>)

dataBlockValues == Cat(<<T("OPEN_BRACE"), Star(N("dataBlockValue")), T("CLOSE_BRACE")>>)

dataBlockValue == Alt(<<N("iri"), N("rdfLiteral"), N("numericLiteral"), N("booleanLiteral"),
    T("UNDEF")>>)

minusGraphPattern == Cat(<<T("MINUS"), N("groupGraphPattern")>>)

groupOrUnionGraphPattern == ListOf(N("groupGraphPattern"), "UNION")

filter == Cat(<<T("FILTER"), N("constraint")>>)

constraint == Alt(<<Cat(<<T("OPEN_BRACE"), N("expression"), T("CLOSE_BRACE")>>), N("builtInCall"),
    N("functionCall")>>)

functionCall == Cat(<<N("iri"), N("argList")>>)

argList == Cat(<<T("OPEN_BRACE"), Alt(<<Cat(<<Opt(T("DISTINCT")), N("expressionList")>>),
    Cat(<<>>)>>), T("CLOSE_BRACE")>>)

expressionList == ListOf(N("expression"), "COMMA")

constructTemplate == Cat(<<T("OPEN_CURLY_BRACE"), Opt(N("constructTriples")),
    T("CLOSE_CURLY_BRACE")>>)

constructTriples == Cat(<<N("triplesSameSubject"), Star(Cat(<<T("DOT"),
    Opt(N("constructTriples"))>>))>>)

triplesSameSubject == Alt(<<Cat(<<N("varOrTerm"), N("propertyListNotEmpty")>>),
    Cat(<<N("triplesNode"), N("propertyList")>>)>>)

propertyList == Opt(N("propertyListNotEmpty"))

propertyListNotEmpty == Cat(<<N("verb"), N("objectList"), Star(Cat(<<T("SEMICOLON"),
    Opt(Cat(<<N("verb"), N("objectList")>>))>>))>>)

verb == Alt(<<N("varOrIRI"), T("A")>>)

objectList == ListOf(N("object"), "COMMA")

object == N("graphNode")

triplesSameSubjectPath == Alt(<<Cat(<<N("varOrTerm"), N("propertyListPathNotEmpty")>>),
    Cat(<<N("triplesNodePath"), N("propertyListPath")>>)>>)

propertyListPath == Opt(N("propertyListPathNotEmpty"))

propertyListPathNotEmpty == Cat(<<Alt(<<N("verbPath"), N("verbSimple")>>), N("objectListPath"),
    Star(Cat(<<T("SEMICOLON"), Opt(N("propertyListPathNotEmptyList"))>>))>>)

propertyListPathNotEmptyList == Cat(<<Alt(<<N("verbPath"), N("verbSimple")>>), N("objectList")>>)

verbPath == N("path")

verbSimple == N("var")

objectListPath == ListOf(N("objectPath"), "COMMA")

objectPath == N("graphNodePath")

path == N("pathAlternative")

pathAlternative == ListOf(N("pathSequence"), "PIPE")

pathSequence == ListOf(N("pathEltOrInverse"), "DIVIDE")

pathElt == Cat(<<N("pathPrimary"), Opt(N("pathMod"))>>)

pathEltOrInverse == Cat(<<Opt(T("INVERSE")), N("pathElt")>>)

pathMod == OneOf(<<"QUESTION_MARK", "ASTERISK", "PLUS_SIGN">>)

pathPrimary == Alt(<<N("iri"), T("A"), Cat(<<T("NEGATION"), N("pathNegatedPropertySet")>>),
    Cat(<<T("OPEN_BRACE"), N("path"), T("CLOSE_BRACE")>>)>>)

pathNegatedPropertySet == Alt(<<N("pathOneInPropertySet"), Cat(<<T("OPEN_BRACE"),
    Opt(ListOf(N("pathOneInPropertySet"), "PIPE")), T("CLOSE_BRACE")>>)>>)

pathOneInPropertySet == Cat(<<Opt(T("INVERSE")), Alt(<<N("iri"), T("A")>>)>>)

integer == T("INTEGER")

triplesNode == Alt(<<N("collection"), N("blankNodePropertyList")>>)

blankNodePropertyList == Cat(<<T("OPEN_SQUARE_BRACKET"), N("propertyListNotEmpty"),
    T("CLOSE_SQUARE_BRACKET")>>)

triplesNodePath == Alt(<<N("collectionPath"), N("blankNodePropertyListPath")>>)

blankNodePropertyListPath == Cat(<<T("OPEN_SQUARE_BRACKET"), N("propertyListPathNotEmpty"),
    T("CLOSE_SQUARE_BRACKET")>>)

collection == Cat(<<T("OPEN_BRACE"), Plus(N("graphNode")), T("CLOSE_BRACE")>>)

collectionPath == Cat(<<T("OPEN_BRACE"), Plus(N("graphNodePath")), T("CLOSE_BRACE")>>)

graphNode == Alt(<<N("varOrTerm"), N("triplesNode")>>)

graphNodePath == Alt(<<N("varOrTerm"), N("triplesNodePath")>>)

varOrTerm == Alt(<<N("var"), N("graphTerm")>>)

varOrIRI == Alt(<<N("var"), N("iri")>>)

var == OneOf(<<"VAR1", "VAR2">>)

graphTerm == Alt(<<N("iri"), N("rdfLiteral"), N("numericLiteral"), N("booleanLiteral"),
    N("blankNode"), N("nil")>>)

nil == Cat(<<T("OPEN_BRACE"), T("CLOSE_BRACE")>>)

baseExpression == N("primaryExpression")

unaryMultiplicativeExpression == Cat(<<OneOf(<<"ASTERISK", "DIVIDE">>), At("expression", 10)>>)

unaryAdditiveExpression == Cat(<<OneOf(<<"PLUS_SIGN", "MINUS_SIGN">>), At("expression", 9)>>)

unaryNegationExpression == Cat(<<T("NEGATION"), At("expression", 8)>>)

\* The operators: what follows the left operand.
multiplicativeExpression == Cat(<<OneOf(<<"ASTERISK", "DIVIDE">>), At("expression", 8)>>)

additiveExpression == Cat(<<OneOf(<<"PLUS_SIGN", "MINUS_SIGN">>), At("expression", 7)>>)

unarySignedLiteralExpression == N("unaryLiteralExpression")

relationalSetExpression == Cat(<<Opt(T("NOT")), T("IN"), T("OPEN_BRACE"), Opt(N("expressionList")),
    T("CLOSE_BRACE")>>)

relationalExpression == Cat(<<OneOf(<<"EQUAL", "NOT_EQUAL", "LESS", "GREATER", "LESS_EQUAL",
    "GREATER_EQUAL">>), At("expression", 4)>>)

\* The right operands of && and || are parsed at level 0.
conditionalAndExpression == Cat(<<T("AND"), At("expression", 0)>>)

conditionalOrExpression == Cat(<<T("OR"), At("expression", 0)>>)

expression ==
    Cat(<<Alt(<<N("baseExpression"), N("unaryMultiplicativeExpression"), N("unaryAdditiveExpression"),
                N("unaryNegationExpression")>>),
          Loop(<<[level |-> 7, rule |-> "multiplicativeExpression"], [level |-> 6, rule |-> "additiveExpression"],
                 [level |-> 3, rule |-> "relationalExpression"], [level |-> 5, rule |-> "unarySignedLiteralExpression"],
                 [level |-> 4, rule |-> "relationalSetExpression"], [level |-> 2, rule |-> "conditionalAndExpression"],
                 [level |-> 1, rule |-> "conditionalOrExpression"]>>)>>)

unaryLiteralExpression == Cat(<<Alt(<<N("numericLiteralPositive"), N("numericLiteralNegative")>>),
    Opt(Cat(<<OneOf(<<"ASTERISK", "DIVIDE">>), N("unaryExpression")>>))>>)

unaryExpression == Cat(<<Opt(OneOf(<<"NEGATION", "PLUS_SIGN", "MINUS_SIGN">>)),
    N("primaryExpression")>>)

primaryExpression == Alt(<<Cat(<<T("OPEN_BRACE"), N("expression"), T("CLOSE_BRACE")>>),
    N("builtInCall"), N("iriRefOrFunction"), N("rdfLiteral"), N("numericLiteral"),
    N("booleanLiteral"), N("var")>>)

builtInCall == Alt(<<N("aggregate"), Cat(<<T("STR"), T("OPEN_BRACE"), N("expression"),
    T("CLOSE_BRACE")>>), Cat(<<T("LANG"), T("OPEN_BRACE"), N("expression"), T("CLOSE_BRACE")>>),
    Cat(<<T("LANGMATCHES"), T("OPEN_BRACE"), N("expression"), T("COMMA"), N("expression"),
    T("CLOSE_BRACE")>>), Cat(<<T("DATATYPE"), T("OPEN_BRACE"), N("expression"),
    T("CLOSE_BRACE")>>), Cat(<<T("BOUND"), T("OPEN_BRACE"), N("var"), T("CLOSE_BRACE")>>),
    Cat(<<T("IRI"), T("OPEN_BRACE"), N("expression"), T("CLOSE_BRACE")>>), Cat(<<T("URI"),
    T("OPEN_BRACE"), N("expression"), T("CLOSE_BRACE")>>), Cat(<<T("BNODE"), T("OPEN_BRACE"),
    Opt(N("expression")), T("CLOSE_BRACE")>>), Cat(<<T("RAND"), T("OPEN_BRACE"),
    T("CLOSE_BRACE")>>), Cat(<<T("ABS"), T("OPEN_BRACE"), N("expression"), T("CLOSE_BRACE")>>),
    Cat(<<T("CEIL"), T("OPEN_BRACE"), N("expression"), T("CLOSE_BRACE")>>), Cat(<<T("FLOOR"),
    T("OPEN_BRACE"), N("expression"), T("CLOSE_BRACE")>>), Cat(<<T("ROUND"), T("OPEN_BRACE"),
    N("expression"), T("CLOSE_BRACE")>>), Cat(<<T("CONCAT"), T("OPEN_BRACE"),
    Opt(N("expressionList")), T("CLOSE_BRACE")>>), N("subStringExpression"), Cat(<<T("STRLEN"),
    T("OPEN_BRACE"), N("expression"), T("CLOSE_BRACE")>>), N("strReplaceExpression"),
    Cat(<<T("UCASE"), T("OPEN_BRACE"), N("expression"), T("CLOSE_BRACE")>>), Cat(<<T("LCASE"),
    T("OPEN_BRACE"), N("expression"), T("CLOSE_BRACE")>>), Cat(<<T("ENCODE_FOR_URI"),
    T("OPEN_BRACE"), N("expression"), T("CLOSE_BRACE")>>), Cat(<<T("CONTAINS"), T("OPEN_BRACE"),
    N("expression"), T("COMMA"), N("expression"), T("CLOSE_BRACE")>>), Cat(<<T("STRSTARTS"),
    T("OPEN_BRACE"), N("expression"), T("COMMA"), N("expression"), T("CLOSE_BRACE")>>),
    Cat(<<T("STRENDS"), T("OPEN_BRACE"), N("expression"), T("COMMA"), N("expression"),
    T("CLOSE_BRACE")>>), Cat(<<T("STRBEFORE"), T("OPEN_BRACE"), N("expression"), T("COMMA"),
    N("expression"), T("CLOSE_BRACE")>>), Cat(<<T("STRAFTER"), T("OPEN_BRACE"), N("expression"),
    T("COMMA"), N("expression"), T("CLOSE_BRACE")>>), Cat(<<T("YEAR"), T("OPEN_BRACE"),
    N("expression"), T("CLOSE_BRACE")>>), Cat(<<T("MONTH"), T("OPEN_BRACE"), N("expression"),
    T("CLOSE_BRACE")>>), Cat(<<T("DAY"), T("OPEN_BRACE"), N("expression"), T("CLOSE_BRACE")>>),
    Cat(<<T("HOURS"), T("OPEN_BRACE"), N("expression"), T("CLOSE_BRACE")>>), Cat(<<T("MINUTES"),
    T("OPEN_BRACE"), N("expression"), T("CLOSE_BRACE")>>), Cat(<<T("SECONDS"), T("OPEN_BRACE"),
    N("expression"), T("CLOSE_BRACE")>>), Cat(<<T("TIMEZONE"), T("OPEN_BRACE"), N("expression"),
    T("CLOSE_BRACE")>>), Cat(<<T("TZ"), T("OPEN_BRACE"), N("expression"), T("CLOSE_BRACE")>>),
    Cat(<<T("NOW"), T("OPEN_BRACE"), T("CLOSE_BRACE")>>), Cat(<<T("UUID"), T("OPEN_BRACE"),
    T("CLOSE_BRACE")>>), Cat(<<T("STRUUID"), T("OPEN_BRACE"), T("CLOSE_BRACE")>>), Cat(<<T("MD5"),
    T("OPEN_BRACE"), N("expression"), T("CLOSE_BRACE")>>), Cat(<<T("SHA1"), T("OPEN_BRACE"),
    N("expression"), T("CLOSE_BRACE")>>), Cat(<<T("SHA256"), T("OPEN_BRACE"), N("expression"),
    T("CLOSE_BRACE")>>), Cat(<<T("SHA384"), T("OPEN_BRACE"), N("expression"), T("CLOSE_BRACE")>>),
    Cat(<<T("SHA512"), T("OPEN_BRACE"), N("expression"), T("CLOSE_BRACE")>>), Cat(<<T("COALESCE"),
    T("OPEN_BRACE"), Opt(N("expressionList")), T("CLOSE_BRACE")>>), Cat(<<T("IF"),
    T("OPEN_BRACE"), N("expression"), T("COMMA"), N("expression"), T("COMMA"), N("expression"),
    T("CLOSE_BRACE")>>), Cat(<<T("STRLANG"), T("OPEN_BRACE"), N("expression"), T("COMMA"),
    N("expression"), T("CLOSE_BRACE")>>), Cat(<<T("STRDT"), T("OPEN_BRACE"), N("expression"),
    T("COMMA"), N("expression"), T("CLOSE_BRACE")>>), Cat(<<T("SAMETERM"), T("OPEN_BRACE"),
    N("expression"), T("COMMA"), N("expression"), T("CLOSE_BRACE")>>), Cat(<<T("ISIRI"),
    T("OPEN_BRACE"), N("expression"), T("CLOSE_BRACE")>>), Cat(<<T("ISURI"), T("OPEN_BRACE"),
    N("expression"), T("CLOSE_BRACE")>>), Cat(<<T("ISBLANK"), T("OPEN_BRACE"), N("expression"),
    T("CLOSE_BRACE")>>), Cat(<<T("ISLITERAL"), T("OPEN_BRACE"), N("expression"),
    T("CLOSE_BRACE")>>), Cat(<<T("ISNUMERIC"), T("OPEN_BRACE"), N("expression"),
    T("CLOSE_BRACE")>>), N("regexExpression"), N("existsFunction"), N("notExistsFunction")>>)

regexExpression == Cat(<<T("REGEX"), T("OPEN_BRACE"), N("expression"), T("COMMA"),
    N("expression"), Opt(Cat(<<T("COMMA"), N("expression")>>)), T("CLOSE_BRACE")>>)

subStringExpression == Cat(<<T("SUBSTR"), T("OPEN_BRACE"), N("expression"), T("COMMA"),
    N("expression"), Opt(Cat(<<T("COMMA"), N("expression")>>)), T("CLOSE_BRACE")>>)

strReplaceExpression == Cat(<<T("REPLACE"), T("OPEN_BRACE"), N("expression"), T("COMMA"),
    N("expression"), T("COMMA"), N("expression"), Opt(Cat(<<T("COMMA"), N("expression")>>)),
    T("CLOSE_BRACE")>>)

existsFunction == Cat(<<T("EXISTS"), N("groupGraphPattern")>>)

notExistsFunction == Cat(<<T("NOT"), T("EXISTS"), N("groupGraphPattern")>>)

aggregate == Alt(<<Cat(<<T("COUNT"), T("OPEN_BRACE"), Opt(T("DISTINCT")), Alt(<<T("ASTERISK"),
    N("expression")>>), T("CLOSE_BRACE")>>), Cat(<<T("SUM"), T("OPEN_BRACE"), Opt(T("DISTINCT")),
    N("expression"), T("CLOSE_BRACE")>>), Cat(<<T("MIN"), T("OPEN_BRACE"), Opt(T("DISTINCT")),
    N("expression"), T("CLOSE_BRACE")>>), Cat(<<T("MAX"), T("OPEN_BRACE"), Opt(T("DISTINCT")),
    N("expression"), T("CLOSE_BRACE")>>), Cat(<<T("AVG"), T("OPEN_BRACE"), Opt(T("DISTINCT")),
    N("expression"), T("CLOSE_BRACE")>>), Cat(<<T("SAMPLE"), T("OPEN_BRACE"), Opt(T("DISTINCT")),
    N("expression"), T("CLOSE_BRACE")>>), Cat(<<T("GROUP_CONCAT"), T("OPEN_BRACE"),
    Opt(T("DISTINCT")), N("expression"), Opt(Cat(<<T("SEMICOLON"), T("SEPARATOR"), T("EQUAL"),
    N("string")>>)), T("CLOSE_BRACE")>>)>>)

iriRefOrFunction == Cat(<<N("iri"), Opt(N("argList"))>>)

rdfLiteral == Cat(<<N("string"), Opt(Alt(<<T("LANGTAG"), Cat(<<T("REFERENCE"), N("iri")>>)>>))>>)

numericLiteral == Alt(<<N("numericLiteralUnsigned"), N("numericLiteralPositive"),
    N("numericLiteralNegative")>>)

numericLiteralUnsigned == OneOf(<<"INTEGER", "DECIMAL", "DOUBLE">>)

numericLiteralPositive == OneOf(<<"INTEGER_POSITIVE", "DECIMAL_POSITIVE", "DOUBLE_POSITIVE">>)

numericLiteralNegative == OneOf(<<"INTEGER_NEGATIVE", "DECIMAL_NEGATIVE", "DOUBLE_NEGATIVE">>)

booleanLiteral == OneOf(<<"TRUE", "FALSE">>)

string == OneOf(<<"STRING_LITERAL1", "STRING_LITERAL2", "STRING_LITERAL_LONG1",
    "STRING_LITERAL_LONG2">>)

iri == Alt(<<T("IRIREF"), N("prefixedName")>>)

prefixedName == OneOf(<<"PNAME_LN", "PNAME_NS">>)

blankNode == Alt(<<T("BLANK_NODE_LABEL"), N("anon")>>)

anon == Cat(<<T("OPEN_SQUARE_BRACKET"), T("CLOSE_SQUARE_BRACKET")>>)

Rules == [query |-> query, prologue |-> prologue, baseDecl |-> baseDecl, prefixDecl |->
    prefixDecl, selectQuery |-> selectQuery, subSelect |-> subSelect, selectClause |->
    selectClause, selectModifier |-> selectModifier, selectSingleVariable |->
    selectSingleVariable, selectExpressionAsVariable |-> selectExpressionAsVariable,
    selectVariables |-> selectVariables, constructQuery |-> constructQuery, describeQuery |->
    describeQuery, askQuery |-> askQuery, datasetClause |-> datasetClause, whereClause |->
    whereClause, solutionModifier |-> solutionModifier, groupClause |-> groupClause,
    groupCondition |-> groupCondition, havingClause |-> havingClause, havingCondition |->
    havingCondition, orderClause |-> orderClause, orderCondition |-> orderCondition,
    limitOffsetClauses |-> limitOffsetClauses, limitClause |-> limitClause, offsetClause |->
    offsetClause, valuesClause |-> valuesClause, updateCommand |-> updateCommand, update |->
    update, load |-> load, clear |-> clear, drop |-> drop, create |-> create, add |-> add, move
    |-> move, copy |-> copy, insertData |-> insertData, deleteData |-> deleteData, deleteWhere |->
    deleteWhere, modify |-> modify, deleteClause |-> deleteClause, insertClause |-> insertClause,
    usingClause |-> usingClause, graphOrDefault |-> graphOrDefault, graphRef |-> graphRef,
    graphRefAll |-> graphRefAll, quadPattern |-> quadPattern, quadData |-> quadData, quads |->
    quads, quadsDetails |-> quadsDetails, quadsNotTriples |-> quadsNotTriples, triplesTemplate |->
    triplesTemplate, groupGraphPattern |-> groupGraphPattern, groupGraphPatternSub |->
    groupGraphPatternSub, groupGraphPatternSubList |-> groupGraphPatternSubList, triplesBlock |->
    triplesBlock, graphPatternNotTriples |-> graphPatternNotTriples, optionalGraphPattern |->
    optionalGraphPattern, graphGraphPattern |-> graphGraphPattern, serviceGraphPattern |->
    serviceGraphPattern, bind |-> bind, inlineData |-> inlineData, dataBlock |-> dataBlock,
    inlineDataOneVar |-> inlineDataOneVar, inlineDataFull |-> inlineDataFull, dataBlockValues |->
    dataBlockValues, dataBlockValue |-> dataBlockValue, minusGraphPattern |-> minusGraphPattern,
    groupOrUnionGraphPattern |-> groupOrUnionGraphPattern, filter |-> filter, constraint |->
    constraint, functionCall |-> functionCall, argList |-> argList, expressionList |->
    expressionList, constructTemplate |-> constructTemplate, constructTriples |->
    constructTriples, triplesSameSubject |-> triplesSameSubject, propertyList |-> propertyList,
    propertyListNotEmpty |-> propertyListNotEmpty, verb |-> verb, objectList |-> objectList,
    object |-> object, triplesSameSubjectPath |-> triplesSameSubjectPath, propertyListPath |->
    propertyListPath, propertyListPathNotEmpty |-> propertyListPathNotEmpty,
    propertyListPathNotEmptyList |-> propertyListPathNotEmptyList, verbPath |-> verbPath,
    verbSimple |-> verbSimple, objectListPath |-> objectListPath, objectPath |-> objectPath, path
    |-> path, pathAlternative |-> pathAlternative, pathSequence |-> pathSequence, pathElt |->
    pathElt, pathEltOrInverse |-> pathEltOrInverse, pathMod |-> pathMod, pathPrimary |->
    pathPrimary, pathNegatedPropertySet |-> pathNegatedPropertySet, pathOneInPropertySet |->
    pathOneInPropertySet, integer |-> integer, triplesNode |-> triplesNode, blankNodePropertyList
    |-> blankNodePropertyList, triplesNodePath |-> triplesNodePath, blankNodePropertyListPath |->
    blankNodePropertyListPath, collection |-> collection, collectionPath |-> collectionPath,
    graphNode |-> graphNode, graphNodePath |-> graphNodePath, varOrTerm |-> varOrTerm, varOrIRI
    |-> varOrIRI, var |-> var, graphTerm |-> graphTerm, nil |-> nil, expression |-> expression,
    unaryLiteralExpression |-> unaryLiteralExpression, unaryExpression |-> unaryExpression,
    primaryExpression |-> primaryExpression, builtInCall |-> builtInCall, regexExpression |->
    regexExpression, subStringExpression |-> subStringExpression, strReplaceExpression |->
    strReplaceExpression, existsFunction |-> existsFunction, notExistsFunction |->
    notExistsFunction, aggregate |-> aggregate, iriRefOrFunction |-> iriRefOrFunction, rdfLiteral
    |-> rdfLiteral, numericLiteral |-> numericLiteral, numericLiteralUnsigned |->
    numericLiteralUnsigned, numericLiteralPositive |-> numericLiteralPositive,
    numericLiteralNegative |-> numericLiteralNegative, booleanLiteral |-> booleanLiteral, string
    |-> string, iri |-> iri, prefixedName |-> prefixedName, blankNode |-> blankNode, anon |->
    anon, baseExpression |-> baseExpression, unaryMultiplicativeExpression |->
    unaryMultiplicativeExpression, unaryAdditiveExpression |-> unaryAdditiveExpression,
    unaryNegationExpression |-> unaryNegationExpression, multiplicativeExpression |->
    multiplicativeExpression, additiveExpression |-> additiveExpression,
    unarySignedLiteralExpression |-> unarySignedLiteralExpression, relationalSetExpression |->
    relationalSetExpression, relationalExpression |-> relationalExpression,
    conditionalAndExpression |-> conditionalAndExpression, conditionalOrExpression |->
    conditionalOrExpression]
================================================================================
