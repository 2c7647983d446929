SPECIFICATION FairSpec
CONSTANTS
  Rel <- MCRel
  Atom <- MCAtom
  RelOf <- MCRelOf
  Fact <- MCFact
  Rule <- MCRule
  Clauses <- MCClauses
  Programs <- MCPrograms
  MaxTuples = 3
  MaxRounds = 3
  N = 4
  None = None
INVARIANTS AcceptsStratified NegatedAreFinal StableModel RuleOfExact
PROPERTY EvalEnds
CHECK_DEADLOCK FALSE
