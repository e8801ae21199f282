\* Some 400 queries over two graphs, and some 3500 derived texts.
SPECIFICATION Spec
CONSTANTS
  Queries <- TestQueries
  Derived <- AllRules
  Databases <- TestDatabases
INVARIANTS AnswersExact RejectsExactly ReadsBack
CHECK_DEADLOCK FALSE
