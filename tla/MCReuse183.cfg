SPECIFICATION RSpec
INVARIANTS SameBehaviour TaintNeverLost
PROPERTIES ImplementsMealy ComputesOriginal
