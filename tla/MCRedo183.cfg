SPECIFICATION Spec
PROPERTIES ComputesOriginal ImplementsWhatIsLeft
